---------------------------- MODULE Spec2Model ----------------------------
(***************************************************************************)
(* A model of the orm repository: the relational client and its            *)
(* transaction handle (both handle variants the repository holds), the     *)
(* engine's tracked list and flushTrackedEntities, the flush under a lock, *)
(* FlushInCache, the batched RabbitMQ consumer, NewWhere and the ordering  *)
(* of the migration planner's statements.                                  *)
(*                                                                         *)
(* Backends (the SQL driver, the caches, the broker, the handler given to  *)
(* Consume) are the environment: every call to one is recorded in `calls`  *)
(* and its outcome is chosen nondeterministically.                         *)
(***************************************************************************)
EXTENDS Integers, Sequences, FiniteSets, TLC

\* ------------------------------------------------------------------ bounds
MaxTracked == 2          \* longest tracked list explored
MaxCounter == 3          \* largest trackedEntitiesCounter explored
MaxNest == 2             \* deepest BeginTransaction nesting explored
MaxMsgs == 5             \* messages published to the consumed queue
MaxPrefetch == 3         \* largest PrefetchCount configured
MaxArgs == 2             \* most entities handed to one FlushInCache
MaxConds == 3            \* most conditions (and parameters) of a NewWhere template
MaxIn == 2               \* longest collection handed to NewWhere
MaxTables == 2           \* tables the planner finds changed or to drop
MaxKeys == 2             \* most foreign keys dropped from one table
MaxClients == 2          \* clients calling GetSet on one key at the same time
MaxVersion == 2          \* values the GetSet provider's source goes through
MaxConns == 3            \* connections dialled for one side of the bus client
MaxLocks == 3            \* locks the locker hands out
MaxLimit == 2            \* largest limit a Flusher is created with
MaxBuffer == 3           \* longest Flusher buffer explored
MaxChannels == 4         \* sender channels one rabbitMQChannel creates
MaxIds == 2              \* largest id marked dirty

\* ------------------------------------------------------------ registry
\* The fixture registry: two MySQL pools, entities bound to them.
Pools == {"default", "log"}

Entities == {"User:1", "Order:1", "Tmp:1"}

\* TableSchema.GetMysql: the pool an entity's schema lives in.
SchemaPool(e) == IF e = "Order:1" THEN "log" ELSE "default"

\* TableSchema local-cache binding (absent for Tmp).
HasLocalCache(e) == e \in {"User:1", "Order:1"}

\* TableSchema shared-cache binding (absent for Tmp).
HasRedisCache(e) == e \in {"User:1"}

NoTx == "nil"
OpenTx == "tx"

\* The error strings row.Scan can return (the empty string: no error).
NoRows == "sql: no rows in result set"
ScanErrors == {"", NoRows, "sql: Scan error on column index 0", "driver: bad connection"}

\* One recorded backend call.
Call(k, on, arg) == [k |-> k, on |-> on, arg |-> arg]

Bool(b) == IF b THEN "ok" ELSE "fail"

\* --------------------------------------------- standardSQLClient (part_000)
\* Each operator takes the handle t of one pool and the driver's outcome and
\* returns the new handle, the error flag and the driver calls issued.

standardSQLClientBeginNoGuard(t, p, drvOk) ==
    IF ~drvOk THEN [tx |-> t, err |-> TRUE, calls |-> <<Call("BEGIN", p, "fail")>>]
    ELSE [tx |-> OpenTx, err |-> FALSE, calls |-> <<Call("BEGIN", p, "ok")>>]

standardSQLClientBegin(t, p, drvOk) ==
    IF t # NoTx THEN [tx |-> t, err |-> TRUE, calls |-> <<>>]
    ELSE IF ~drvOk THEN [tx |-> t, err |-> TRUE, calls |-> <<Call("BEGIN", p, "fail")>>]
    ELSE [tx |-> OpenTx, err |-> FALSE, calls |-> <<Call("BEGIN", p, "ok")>>]

standardSQLClientCommit(t, p, drvOk) ==
    IF t = NoTx THEN [tx |-> t, err |-> TRUE, calls |-> <<>>]
    ELSE IF ~drvOk THEN [tx |-> t, err |-> TRUE, calls |-> <<Call("COMMIT", p, "fail")>>]
    ELSE [tx |-> NoTx, err |-> FALSE, calls |-> <<Call("COMMIT", p, "ok")>>]

standardSQLClientRollback(t, p, drvOk) ==
    IF t = NoTx THEN [tx |-> t, has |-> FALSE, err |-> FALSE, calls |-> <<>>]
    ELSE IF ~drvOk
         THEN [tx |-> t, has |-> TRUE, err |-> TRUE, calls |-> <<Call("ROLLBACK", p, "fail")>>]
         ELSE [tx |-> NoTx, has |-> TRUE, err |-> FALSE, calls |-> <<Call("ROLLBACK", p, "ok")>>]

\* Exec / QueryRow / Query: where the statement runs.
RouteAlwaysPool(t) == "db"

standardSQLClientRoute(t) == IF t # NoTx THEN "tx" ELSE "db"

\* DB.QueryRow's outcome for the error row.Scan returned.
QueryRowAnyErrorIsNotFound(scanErr) ==
    IF scanErr # "" THEN [found |-> FALSE, err |-> "nil"] ELSE [found |-> TRUE, err |-> "nil"]

DBQueryRowResult(scanErr) ==
    IF scanErr # ""
    THEN IF scanErr = NoRows THEN [found |-> FALSE, err |-> "nil"]
         ELSE [found |-> FALSE, err |-> "panic"]
    ELSE [found |-> TRUE, err |-> "nil"]

\* A set of keys as a sequence (the order a range over a Go map happens to take
\* is immaterial to every property stated here).
RECURSIVE SetToSeq(_)
SetToSeq(S) == IF S = {} THEN <<>>
               ELSE LET x == CHOOSE y \in S : TRUE IN <<x>> \o SetToSeq(S \ {x})

CallsFor(k, on, keys) == [i \in 1..Len(SetToSeq(keys)) |-> Call(k, on, SetToSeq(keys)[i])]

\* The post-commit fan-out of Commit: the queued local-cache sets, then the
\* queued local-cache removals (the nested handle only), then the queued
\* shared-cache deletes.
AfterCommitCallsDeleteFirst(sets, localDeletes, redisDeletes) ==
    CallsFor("DEL", "redis", redisDeletes)
    \o CallsFor("MSET", "local", sets) \o CallsFor("REMOVE", "local", localDeletes)

AfterCommitCalls(sets, localDeletes, redisDeletes) ==
    CallsFor("MSET", "local", sets) \o CallsFor("REMOVE", "local", localDeletes)
    \o CallsFor("DEL", "redis", redisDeletes)

\* ------------------------------------------------------- DB (part_000)
\* The engine-wide post-commit queues are engine.go's
\* afterCommitLocalCacheSets / afterCommitRedisCacheDeletes; an entry is the
\* row key of the entity it was queued for.

\* DB.Begin: the client's Begin; an error is raised to the caller.
DBBegin(t, p, drvOk) == standardSQLClientBegin(t, p, drvOk)

\* DB.Commit: the client's Commit, then the whole engine queue is applied.
DBCommit(t, p, drvOk, sets, deletes) ==
    LET r == standardSQLClientCommit(t, p, drvOk) IN
    IF r.err
    THEN [tx |-> r.tx, err |-> TRUE, calls |-> r.calls, sets |-> sets, deletes |-> deletes]
    ELSE [tx |-> r.tx, err |-> FALSE,
          calls |-> r.calls \o AfterCommitCalls(sets, {}, deletes),
          sets |-> {}, deletes |-> {}]

\* DB.Rollback: the client's Rollback; an error is raised before the queues
\* are dropped.
DBRollback(t, p, drvOk, sets, deletes) ==
    LET r == standardSQLClientRollback(t, p, drvOk) IN
    IF r.err
    THEN [tx |-> r.tx, err |-> TRUE, calls |-> r.calls, sets |-> sets, deletes |-> deletes]
    ELSE [tx |-> r.tx, err |-> FALSE, calls |-> r.calls, sets |-> {}, deletes |-> {}]

\* ------------------------------------------- nested DB handle (part_001)
\* d is the handle's state: transaction, transactionCounter and its own three
\* post-commit queues.
NestedState(t, c, sets, ldel, rdel) ==
    [transaction |-> t, transactionCounter |-> c,
     afterCommitLocalCacheSets |-> sets,
     afterCommitLocalCacheDeletes |-> ldel,
     afterCommitRedisCacheDeletes |-> rdel]

NestedBeginTransaction(d, drvOk) ==
    LET d1 == [d EXCEPT !.transactionCounter = @ + 1] IN
    IF d.transaction # NoTx THEN [d |-> d1, err |-> FALSE, calls |-> <<>>]
    ELSE IF ~drvOk THEN [d |-> d1, err |-> TRUE, calls |-> <<Call("BEGIN", "nested", "fail")>>]
    ELSE [d |-> [d1 EXCEPT !.transaction = OpenTx], err |-> FALSE,
          calls |-> <<Call("BEGIN", "nested", "ok")>>]

NestedCommit(d, drvOk, delOk) ==
    IF d.transaction = NoTx THEN [d |-> d, err |-> FALSE, calls |-> <<>>]
    ELSE LET d1 == [d EXCEPT !.transactionCounter = @ - 1] IN
         IF d1.transactionCounter # 0 THEN [d |-> d1, err |-> FALSE, calls |-> <<>>]
         ELSE IF ~drvOk
              THEN [d |-> d1, err |-> TRUE, calls |-> <<Call("COMMIT", "nested", "fail")>>]
              ELSE LET applied == <<Call("COMMIT", "nested", "ok")>>
                                   \o AfterCommitCalls(d.afterCommitLocalCacheSets,
                                                       d.afterCommitLocalCacheDeletes, {})
                       d2 == [d1 EXCEPT !.afterCommitLocalCacheSets = {},
                                        !.afterCommitLocalCacheDeletes = {}]
                   IN IF d.afterCommitRedisCacheDeletes # {} /\ ~delOk
                      THEN [d |-> d2, err |-> TRUE,
                            calls |-> applied \o <<Call("DEL", "redis", "fail")>>]
                      ELSE [d |-> [d2 EXCEPT !.afterCommitRedisCacheDeletes = {},
                                             !.transaction = NoTx],
                            err |-> FALSE,
                            calls |-> <<Call("COMMIT", "nested", "ok")>>
                                      \o AfterCommitCalls(d.afterCommitLocalCacheSets,
                                                          d.afterCommitLocalCacheDeletes,
                                                          d.afterCommitRedisCacheDeletes)]

NestedRollback(d, drvOk) ==
    IF d.transaction = NoTx THEN [d |-> d, err |-> FALSE, calls |-> <<>>]
    ELSE LET d1 == [d EXCEPT !.transactionCounter = @ - 1] IN
         IF d1.transactionCounter # 0 THEN [d |-> d1, err |-> TRUE, calls |-> <<>>]
         ELSE LET d2 == [d1 EXCEPT !.afterCommitLocalCacheSets = {},
                                   !.afterCommitLocalCacheDeletes = {}]
              IN IF ~drvOk
                 THEN [d |-> d2, err |-> TRUE, calls |-> <<Call("ROLLBACK", "nested", "fail")>>]
                 ELSE [d |-> [d2 EXCEPT !.transaction = NoTx], err |-> FALSE,
                       calls |-> <<Call("ROLLBACK", "nested", "ok")>>]

\* DB.Exec / QueryRow / Query of the nested handle: where the statement runs.
NestedRoute(d) == IF d.transaction # NoTx THEN "tx" ELSE "db"

\* ------------------------------------------------------------------ state
VARIABLES
    tx,                            \* standardSQLClient.tx of every pool
    afterCommitLocalCacheSets,     \* Engine.afterCommitLocalCacheSets
    afterCommitRedisCacheDeletes,  \* Engine.afterCommitRedisCacheDeletes
    nestedDB,                      \* the nested handle (part_001's DB struct)
    trackedEntities,               \* Engine.trackedEntities
    trackedEntitiesCounter,        \* Engine.trackedEntitiesCounter
    pc,                            \* where flushTrackedEntities stands
    dbPools,                       \* flushTrackedEntities' dbPools map
    todo,                          \* pools the current range loop has not visited
    trackedBefore,                 \* the tracked list when the last flush was called
    lock,                          \* flushWithLock's lock: "none" or "held"
    calls,                         \* backend calls of the running / last operation
    ret,                           \* the last operation and what it returned
    window                         \* pool -> a Begin succeeded and no Commit/Rollback
                                   \* reached the driver since

\* rabbitMQReceiver, its channel and the queue it consumes (part_002)
VARIABLES
    prefetchCount,                 \* RabbitMQQueueConfig.PrefetchCount, also the channel's Qos
    disableLoop,                   \* rabbitMQReceiver.disableLoop
    published,                     \* messages published to the queue so far: 1..published
    received,                      \* messages taken from the delivery channel: 1..received
    ackedUpTo,                     \* highest delivery tag the broker saw acknowledged
    cpc,                           \* where Consume stands
    max, counter, timeOut, last, items,   \* Consume's locals
    batches,                       \* every handler call: the batch and whether it returned nil
    acks,                          \* every Ack call: the tag, multiple, whether it returned nil
    consumeRet,                    \* what Consume returned
    queuedAtStart,                 \* messages in the queue when Consume was called
    earlyTimeout,                  \* the timer fired while a delivery was ready
    batchTimedOut                  \* the timer fired since the pending batch got its first message

consumerVars == <<prefetchCount, disableLoop, published, received, ackedUpTo, cpc, max,
                  counter, timeOut, last, items, batches, acks, consumeRet,
                  queuedAtStart, earlyTimeout, batchTimedOut>>

\* entities handed to FlushInCache (flush_in_cache.go)
VARIABLES
    dirty,                         \* entity -> getDirtyBind reports it dirty
    cacheArgs,                     \* the arguments of the last FlushInCache
    dirtyBefore                    \* dirty when the last FlushInCache was called

cacheVars == <<dirty, cacheArgs, dirtyBefore>>

\* inputs and results of the pure functions (where.go)
VARIABLES
    whereArgs,                     \* NewWhere's arguments: query, parameters
    where                          \* the where it returned

\* input and result of the migration planner (part_003)
VARIABLES
    alterArgs,                     \* what getAlters finds, per table, in iteration order
    alters,                        \* the list it returned
    registry,                      \* the registered entities' table schemas
    catalog                        \* the tables of the database, as MySQL reports them

catalogVars == <<registry, catalog>>

alterVars == <<alterArgs, alters, catalogVars>>

\* RedisCache.GetSet called by concurrent clients on one key (part_000)
VARIABLES
    gsRedis,                       \* the value stored under the key, or redis.Nil
    gsSource,                      \* what the provider returns when called now
    gsPc,                          \* client -> where it is in GetSet
    gsVal,                         \* client -> userVal
    gsRet,                         \* client -> what GetSet returned
    gsProviderCalls                \* calls of the provider so far

getSetVars == <<gsRedis, gsSource, gsPc, gsVal, gsRet, gsProviderCalls>>

\* entities bound to the engine (engine.go)
VARIABLES
    attributes,                    \* entity -> orm.attributes: loaded, delete
    fields,                        \* entity -> the entity's field values
    dBData                         \* entity -> orm.dBData, the persisted column values

entityVars == <<attributes, fields, dBData>>

\* rabbitMQConnection and the broker it dials (part_002)
VARIABLES
    reachable,                     \* amqp.Dial succeeds
    clients,                       \* side -> clientSender / clientReceivers: the number of
                                   \* the connection held (0: nil) and whether it is closed
    keepers                        \* side -> keepConnection goroutines that received a
                                   \* close notification and have not called connect yet

busVars == <<reachable, clients, keepers>>

\* the engine's RabbitMQ facades (engine.go)
VARIABLES
    rabbitMQQueues,                \* Engine.rabbitMQQueues: name -> facade (0: no entry)
    rabbitMQDelayedQueues,         \* Engine.rabbitMQDelayedQueues
    rabbitMQRouters,               \* Engine.rabbitMQRouters
    got                            \* the last accessor call and what it returned

facadeVars == <<rabbitMQQueues, rabbitMQDelayedQueues, rabbitMQRouters, got>>

\* the locker and the locks it handed out (Locker, engine.go)
VARIABLES
    lockExpired,                   \* the TTL of flushWithLock's lock ran out before Release
    lockKeys,                      \* lock name -> the lock holding the name's key (0: none)
    lockHandles,                   \* the locks handed out: name, held / expired / released
    obtained                       \* the last Obtain call and what it returned

lockerVars == <<lockExpired, lockKeys, lockHandles, obtained>>

\* a Flusher (flush_in_cache.go)
VARIABLES
    flusher,                       \* the Flusher: limit, autoFlush, entities, currentIndex
    flusherRet                        \* the last call on it: its arguments, the buffer before
                                   \* it, the lists it handed to flush, its error

flusherVars == <<flusher, flusherRet>>

\* a rabbitMQChannel that publishes (part_002)
VARIABLES
    channelSender,                 \* 0: nil; n: the n-th sender channel created
    publishRet                     \* the last Publish of a facade: the message, what it did,
                                   \* its error

publishVars == <<channelSender, publishRet>>

VARIABLE dirtyRet                  \* the last Engine.MarkDirty: its arguments, the messages
                                   \* the broker accepted, the ids it tried, its error

moreVars == <<flusherVars, publishVars, dirtyRet>>

restVars == <<getSetVars, entityVars, busVars, facadeVars, lockerVars, moreVars>>

pureVars == <<whereArgs, where, alterVars, restVars>>

dbVars == <<tx, afterCommitLocalCacheSets, afterCommitRedisCacheDeletes>>
engineVars == <<trackedEntities, trackedEntitiesCounter, pc, dbPools, todo, trackedBefore, lock>>

\* everything but the consumer and the pure functions
otherVars == <<dbVars, nestedDB, engineVars, calls, ret, window, cacheVars>>

Handles == Pools \cup {"nested"}

Ret(op, db, err, wasOpen, found, scan) ==
    [op |-> op, db |-> db, err |-> err, wasOpen |-> wasOpen, found |-> found, scan |-> scan]

Err(b) == IF b THEN "error" ELSE "nil"
Panic(b) == IF b THEN "panic" ELSE "nil"

InitDB ==
    /\ tx = [p \in Pools |-> NoTx]
    /\ afterCommitLocalCacheSets = {}
    /\ afterCommitRedisCacheDeletes = {}
    /\ nestedDB = NestedState(NoTx, 0, {}, {}, {})
    /\ calls = <<>>
    /\ ret = Ret("none", "-", "nil", FALSE, FALSE, "")
    /\ window = [h \in Handles |-> FALSE]

InitEngine ==
    /\ trackedEntities = <<>>
    /\ trackedEntitiesCounter = 0
    /\ pc = "idle"
    /\ dbPools = {}
    /\ todo = {}
    /\ trackedBefore = <<>>
    /\ lock = "none"

\* ----------------------------------------------- calls on a pool (part_000)
\* db.Begin()
Begin(p) ==
    /\ pc = "idle"
    /\ \E drvOk \in BOOLEAN :
         LET r == DBBegin(tx[p], p, drvOk) IN
         /\ tx' = [tx EXCEPT ![p] = r.tx]
         /\ calls' = r.calls
         /\ ret' = Ret("Begin", p, Panic(r.err), tx[p] # NoTx, FALSE, "")
         /\ window' = IF r.err THEN window ELSE [window EXCEPT ![p] = TRUE]
    /\ UNCHANGED <<consumerVars, pureVars, cacheVars, afterCommitLocalCacheSets, afterCommitRedisCacheDeletes, nestedDB, engineVars>>

\* db.Commit()
Commit(p) ==
    /\ pc = "idle"
    /\ \E drvOk \in BOOLEAN :
         LET r == DBCommit(tx[p], p, drvOk, afterCommitLocalCacheSets,
                           afterCommitRedisCacheDeletes) IN
         /\ tx' = [tx EXCEPT ![p] = r.tx]
         /\ afterCommitLocalCacheSets' = r.sets
         /\ afterCommitRedisCacheDeletes' = r.deletes
         /\ calls' = r.calls
         /\ ret' = Ret("Commit", p, Panic(r.err), tx[p] # NoTx, FALSE, "")
         /\ window' = IF tx[p] # NoTx THEN [window EXCEPT ![p] = FALSE] ELSE window
    /\ UNCHANGED <<consumerVars, pureVars, cacheVars, nestedDB, engineVars>>

\* db.Rollback()
Rollback(p) ==
    /\ pc = "idle"
    /\ \E drvOk \in BOOLEAN :
         LET r == DBRollback(tx[p], p, drvOk, afterCommitLocalCacheSets,
                             afterCommitRedisCacheDeletes) IN
         /\ tx' = [tx EXCEPT ![p] = r.tx]
         /\ afterCommitLocalCacheSets' = r.sets
         /\ afterCommitRedisCacheDeletes' = r.deletes
         /\ calls' = r.calls
         /\ ret' = Ret("Rollback", p, Panic(r.err), tx[p] # NoTx, FALSE, "")
         /\ window' = IF tx[p] # NoTx THEN [window EXCEPT ![p] = FALSE] ELSE window
    /\ UNCHANGED <<consumerVars, pureVars, cacheVars, nestedDB, engineVars>>

\* db.Exec(query, args...) and db.Query(query, args...): the statement is
\* routed, a driver error is raised.
Statement(op, p) ==
    /\ pc = "idle"
    /\ \E drvOk \in BOOLEAN :
         /\ calls' = <<Call(op, p, standardSQLClientRoute(tx[p]))>>
         /\ ret' = Ret(op, p, Panic(~drvOk), tx[p] # NoTx, FALSE, "")
    /\ UNCHANGED <<consumerVars, pureVars, cacheVars, dbVars, nestedDB, engineVars, window>>

\* db.QueryRow(query, toFill...)
QueryRow(p) ==
    /\ pc = "idle"
    /\ \E scanErr \in ScanErrors :
         LET r == DBQueryRowResult(scanErr) IN
         /\ calls' = <<Call("QueryRow", p, standardSQLClientRoute(tx[p]))>>
         /\ ret' = Ret("QueryRow", p, r.err, tx[p] # NoTx, r.found, scanErr)
    /\ UNCHANGED <<consumerVars, pureVars, cacheVars, dbVars, nestedDB, engineVars, window>>

\* --------------------------------------- calls on the nested handle (part_001)
NestedBegin ==
    /\ pc = "idle"
    /\ nestedDB.transactionCounter < MaxNest
    /\ \E drvOk \in BOOLEAN :
         LET r == NestedBeginTransaction(nestedDB, drvOk) IN
         /\ nestedDB' = r.d
         /\ calls' = r.calls
         /\ ret' = Ret("BeginTransaction", "nested", Err(r.err),
                       nestedDB.transaction # NoTx, FALSE, "")
         /\ window' = IF r.calls # <<>> /\ ~r.err
                       THEN [window EXCEPT !["nested"] = TRUE] ELSE window
    /\ UNCHANGED <<consumerVars, pureVars, cacheVars, dbVars, engineVars>>

NestedCommitCall ==
    /\ pc = "idle"
    /\ nestedDB.transactionCounter > -MaxNest
    /\ \E drvOk \in BOOLEAN, delOk \in BOOLEAN :
         LET r == NestedCommit(nestedDB, drvOk, delOk) IN
         /\ nestedDB' = r.d
         /\ calls' = r.calls
         /\ ret' = Ret("Commit", "nested", Err(r.err), nestedDB.transaction # NoTx, FALSE, "")
         /\ window' = IF r.calls # <<>> THEN [window EXCEPT !["nested"] = FALSE] ELSE window
    /\ UNCHANGED <<consumerVars, pureVars, cacheVars, dbVars, engineVars>>

NestedRollbackCall ==
    /\ pc = "idle"
    /\ nestedDB.transactionCounter > -MaxNest
    /\ \E drvOk \in BOOLEAN :
         LET r == NestedRollback(nestedDB, drvOk) IN
         /\ nestedDB' = r.d
         /\ calls' = r.calls
         /\ ret' = Ret("Rollback", "nested", Err(r.err), nestedDB.transaction # NoTx, FALSE, "")
         /\ window' = IF r.calls # <<>> THEN [window EXCEPT !["nested"] = FALSE] ELSE window
    /\ UNCHANGED <<consumerVars, pureVars, cacheVars, dbVars, engineVars>>

NestedStatement(op) ==
    /\ pc = "idle"
    /\ \E drvOk \in BOOLEAN :
         /\ calls' = <<Call(op, "nested", NestedRoute(nestedDB))>>
         /\ ret' = Ret(op, "nested", Err(~drvOk), nestedDB.transaction # NoTx, FALSE, "")
    /\ UNCHANGED <<consumerVars, pureVars, cacheVars, dbVars, nestedDB, engineVars, window>>

\* The flusher's cache-coherence phase inside an open transaction of the
\* nested handle: the mutations of one written row are queued on the handle
\* (a saved row: local set and shared delete; a deleted row: local delete and
\* shared delete).
NestedQueue(e, deleted) ==
    /\ pc = "idle"
    /\ nestedDB.transaction # NoTx
    /\ nestedDB' =
         [nestedDB EXCEPT
            !.afterCommitLocalCacheSets =
                IF HasLocalCache(e) /\ ~deleted THEN @ \cup {e} ELSE @,
            !.afterCommitLocalCacheDeletes =
                IF HasLocalCache(e) /\ deleted THEN @ \cup {e} ELSE @,
            !.afterCommitRedisCacheDeletes =
                IF HasRedisCache(e) THEN @ \cup {e} ELSE @]
    /\ nestedDB' # nestedDB
    /\ calls' = <<Call("Exec", "nested", NestedRoute(nestedDB))>>
    /\ ret' = Ret("flush", "nested", "nil", TRUE, FALSE, "")
    /\ UNCHANGED <<consumerVars, pureVars, cacheVars, dbVars, engineVars, window>>


\* ------------------------------------------------------------ engine
TrackLimit == 10000

FlushOps == {"Flush", "FlushLazy", "FlushInTransaction"}

Range(f) == {f[i] : i \in DOMAIN f}

\* Engine.Track(entity)
Track(e) ==
    /\ pc = "idle"
    /\ Len(trackedEntities) < MaxTracked
    /\ trackedEntitiesCounter < MaxCounter
    /\ trackedEntities' = Append(trackedEntities, e)
    /\ trackedEntitiesCounter' = trackedEntitiesCounter + 1
    /\ calls' = <<>>
    /\ ret' = Ret("Track", "-", Panic(trackedEntitiesCounter + 1 = TrackLimit), FALSE, FALSE, "")
    /\ UNCHANGED <<consumerVars, pureVars, cacheVars, lock, dbVars, nestedDB, pc, dbPools, todo, trackedBefore, window>>

\* Engine.ClearTrackedEntities()
ClearTrackedEntities ==
    /\ pc = "idle"
    /\ trackedEntities' = <<>>
    /\ calls' = <<>>
    /\ ret' = Ret("ClearTrackedEntities", "-", "nil", FALSE, FALSE, "")
    /\ UNCHANGED <<consumerVars, pureVars, cacheVars, lock, dbVars, nestedDB, trackedEntitiesCounter, pc, dbPools, todo,
                   trackedBefore, window>>

\* flushTrackedEntities, lines 452-465: the tracked list on exit.
TrackedOnExitAlwaysCleared(list, failed) == <<>>

TrackedOnExit(list, failed) == IF failed THEN list ELSE <<>>

CounterOnExit(n, failed) == IF failed THEN n ELSE 0

\* The variants that call flushTrackedEntities with transaction = true.
TransactionOps == {"FlushInTransaction", "FlushInTransactionWithLock"}

\* Where a return of flushTrackedEntities leads: to flushWithLock's deferred
\* lock.Release() when it holds the lock.
ReleaseSkipped(l) == "idle"

FlushExit(l) == IF l = "held" THEN "release" ELSE "idle"

\* The pools flushTrackedEntities opens a transaction on.
FlushPools(transaction, list) ==
    IF transaction THEN {SchemaPool(e) : e \in Range(list)} ELSE {}

\* flushTrackedEntities(lazy, transaction), up to the Begin loop.
FlushStart(op) ==
    /\ pc = "idle"
    /\ trackedBefore' = trackedEntities
    /\ calls' = <<>>
    /\ IF trackedEntitiesCounter = 0
       THEN /\ ret' = Ret(op, "-", "nil", FALSE, FALSE, "")
            /\ dbPools' = {}
            /\ UNCHANGED <<pc, todo>>
       ELSE /\ ret' = Ret(op, "-", "pending", FALSE, FALSE, "")
            /\ dbPools' = FlushPools(op = "FlushInTransaction", trackedEntities)
            /\ todo' = dbPools'
            /\ pc' = IF dbPools' = {} THEN "flush" ELSE "begin"
    /\ UNCHANGED <<consumerVars, pureVars, cacheVars, lock, dbVars, nestedDB, trackedEntities, trackedEntitiesCounter, window>>

\* One turn of `for _, db := range dbPools { err := db.Begin() ... }`; a
\* failing Begin returns before the deferred rollback is registered.
FlushBegin ==
    /\ pc = "begin"
    /\ \E p \in todo, drvOk \in BOOLEAN :
         LET r == DBBegin(tx[p], p, drvOk) IN
         /\ tx' = [tx EXCEPT ![p] = r.tx]
         /\ window' = IF r.err THEN window ELSE [window EXCEPT ![p] = TRUE]
         /\ calls' = calls \o r.calls
         /\ IF r.err
            THEN /\ pc' = FlushExit(lock)
                 /\ todo' = {}
                 /\ ret' = [ret EXCEPT !.err = "error"]
            ELSE /\ todo' = todo \ {p}
                 /\ pc' = IF todo' = {} THEN "flush" ELSE "begin"
                 /\ ret' = ret
    /\ UNCHANGED <<consumerVars, pureVars, cacheVars, lock, afterCommitLocalCacheSets, afterCommitRedisCacheDeletes, nestedDB,
                   trackedEntities, trackedEntitiesCounter, dbPools, trackedBefore>>

\* The statements flush issues for the first k tracked entities: a publish on
\* the lazy queue, or an Exec on the entity's pool.
FlushStatements(lazy, list, k) ==
    [i \in 1..k |->
        IF lazy THEN Call("PUBLISH", "lazy_queue", list[i])
        ELSE Call("Exec", SchemaPool(list[i]), standardSQLClientRoute(tx[SchemaPool(list[i])]))]

\* flush(e, lazy, transaction, e.trackedEntities...): the statements, then the
\* cache-coherence phase (queued when a transaction is open, applied at once
\* otherwise); a failing statement ends it with an error.
FlushRun ==
    /\ pc = "flush"
    /\ \E failed \in BOOLEAN, k \in 0..Len(trackedEntities) :
         LET lazy == ret.op = "FlushLazy"
             transaction == ret.op \in TransactionOps
             sets == {e \in Range(trackedEntities) : HasLocalCache(e)}
             deletes == {e \in Range(trackedEntities) : HasRedisCache(e)}
         IN
         /\ IF failed THEN k < Len(trackedEntities) ELSE k = Len(trackedEntities)
         /\ IF failed \/ lazy
            THEN /\ calls' = calls \o FlushStatements(lazy, trackedEntities, k)
                 /\ UNCHANGED <<afterCommitLocalCacheSets, afterCommitRedisCacheDeletes>>
            ELSE IF transaction
            THEN /\ calls' = calls \o FlushStatements(lazy, trackedEntities, k)
                 /\ afterCommitLocalCacheSets' = afterCommitLocalCacheSets \cup sets
                 /\ afterCommitRedisCacheDeletes' = afterCommitRedisCacheDeletes \cup deletes
            ELSE /\ calls' = calls \o FlushStatements(lazy, trackedEntities, k)
                               \o CallsFor("MSET", "local", sets)
                               \o CallsFor("DEL", "redis", deletes)
                 /\ UNCHANGED <<afterCommitLocalCacheSets, afterCommitRedisCacheDeletes>>
         /\ IF ~failed /\ dbPools # {}
            THEN /\ pc' = "commit"
                 /\ todo' = dbPools
                 /\ UNCHANGED <<trackedEntities, trackedEntitiesCounter, ret>>
            ELSE /\ trackedEntities' = TrackedOnExit(trackedEntities, failed)
                 /\ trackedEntitiesCounter' = CounterOnExit(trackedEntitiesCounter, failed)
                 /\ ret' = [ret EXCEPT !.err = Err(failed)]
                 /\ todo' = dbPools
                 /\ pc' = IF dbPools = {} THEN FlushExit(lock) ELSE "defer"
    /\ UNCHANGED <<consumerVars, pureVars, cacheVars, lock, tx, nestedDB, dbPools, trackedBefore, window>>

\* One turn of `for _, db := range dbPools { err := db.Commit() ... }`.
FlushCommit ==
    /\ pc = "commit"
    /\ \E p \in todo, drvOk \in BOOLEAN :
         LET r == DBCommit(tx[p], p, drvOk, afterCommitLocalCacheSets,
                           afterCommitRedisCacheDeletes)
             done == ~r.err /\ todo = {p}
         IN
         /\ tx' = [tx EXCEPT ![p] = r.tx]
         /\ afterCommitLocalCacheSets' = r.sets
         /\ afterCommitRedisCacheDeletes' = r.deletes
         /\ window' = IF tx[p] # NoTx THEN [window EXCEPT ![p] = FALSE] ELSE window
         /\ calls' = calls \o r.calls
         /\ IF r.err \/ done
            THEN /\ trackedEntities' = TrackedOnExit(trackedEntities, r.err)
                 /\ trackedEntitiesCounter' = CounterOnExit(trackedEntitiesCounter, r.err)
                 /\ ret' = [ret EXCEPT !.err = Err(r.err)]
                 /\ todo' = dbPools
                 /\ pc' = "defer"
            ELSE /\ todo' = todo \ {p}
                 /\ UNCHANGED <<trackedEntities, trackedEntitiesCounter, ret, pc>>
    /\ UNCHANGED <<consumerVars, pureVars, cacheVars, lock, nestedDB, dbPools, trackedBefore>>

\* One turn of the deferred `for _, db := range dbPools { db.Rollback() }`; a
\* Rollback that raises ends the loop.
FlushDefer ==
    /\ pc = "defer"
    /\ \E p \in todo, drvOk \in BOOLEAN :
         LET r == DBRollback(tx[p], p, drvOk, afterCommitLocalCacheSets,
                             afterCommitRedisCacheDeletes) IN
         /\ tx' = [tx EXCEPT ![p] = r.tx]
         /\ afterCommitLocalCacheSets' = r.sets
         /\ afterCommitRedisCacheDeletes' = r.deletes
         /\ window' = IF tx[p] # NoTx THEN [window EXCEPT ![p] = FALSE] ELSE window
         /\ calls' = calls \o r.calls
         /\ IF r.err
            THEN /\ ret' = [ret EXCEPT !.err = "panic"]
                 /\ todo' = {}
                 /\ pc' = FlushExit(lock)
            ELSE /\ ret' = ret
                 /\ todo' = todo \ {p}
                 /\ pc' = IF todo' = {} THEN FlushExit(lock) ELSE "defer"
    /\ UNCHANGED <<consumerVars, pureVars, cacheVars, lock, nestedDB, trackedEntities, trackedEntitiesCounter, dbPools, trackedBefore>>

\* ------------------------------------------------- flushWithLock (engine.go)
FlushWithLockOps == {"FlushWithLock", "FlushInTransactionWithLock"}

ObtainOutcomes == {"ok", "timeout", "error"}

\* locker.Obtain returned err == nil and has == true
ProceedsWithoutLock(outcome) == TRUE

ObtainedLock(outcome) == outcome = "ok"

\* flushWithLock up to flushTrackedEntities' Begin loop: Obtain, the two
\* early returns, the deferral of Release, then flushTrackedEntities' entry.
FlushWithLock(op) ==
    /\ pc = "idle"
    /\ trackedBefore' = trackedEntities
    /\ \E outcome \in ObtainOutcomes :
         /\ calls' = <<Call("OBTAIN", "locker", outcome)>>
         /\ IF ~ObtainedLock(outcome)
            THEN /\ ret' = Ret(op, "-", "error", FALSE, FALSE, "")
                 /\ UNCHANGED <<pc, dbPools, todo, lock>>
            ELSE /\ lock' = "held"
                 /\ IF trackedEntitiesCounter = 0
                    THEN /\ ret' = Ret(op, "-", "nil", FALSE, FALSE, "")
                         /\ dbPools' = {}
                         /\ todo' = {}
                         /\ pc' = "release"
                    ELSE /\ ret' = Ret(op, "-", "pending", FALSE, FALSE, "")
                         /\ dbPools' = FlushPools(op \in TransactionOps, trackedEntities)
                         /\ todo' = dbPools'
                         /\ pc' = IF dbPools' = {} THEN "flush" ELSE "begin"
    /\ lockExpired' = FALSE
    /\ UNCHANGED <<consumerVars, moreVars, whereArgs, where, alterVars, getSetVars, entityVars, busVars,
                   facadeVars, lockKeys, lockHandles, obtained, cacheVars, dbVars, nestedDB,
                   trackedEntities, trackedEntitiesCounter, window>>

\* The TTL handed to Obtain runs out while flushWithLock holds the lock.
LockExpires ==
    /\ lock = "held" /\ pc # "idle"
    /\ ~lockExpired
    /\ lockExpired' = TRUE
    /\ UNCHANGED <<otherVars, consumerVars, moreVars, whereArgs, where, alterVars, getSetVars, entityVars,
                   busVars, facadeVars, lockKeys, lockHandles, obtained>>


\* The deferred lock.Release()
FlushRelease ==
    /\ pc = "release"
    /\ calls' = Append(calls, Call("RELEASE", "locker", "-"))
    /\ lock' = "none"
    /\ pc' = "idle"
    /\ UNCHANGED <<consumerVars, pureVars, cacheVars, dbVars, nestedDB, trackedEntities, trackedEntitiesCounter,
                   dbPools, todo, trackedBefore, ret, window>>

\* ------------------------------------------- flushInCache (flush_in_cache.go)
CacheEntities ==
    { [name |-> "User", id |-> 1], [name |-> "User", id |-> 0],
      [name |-> "Item", id |-> 7], [name |-> "Order", id |-> 1] }

\* schema.GetRedisCache(engine): the shared-cache pool of a schema, "none"
\* when the schema has no binding
SchemaRedisCache(name) ==
    IF name = "User" THEN "default" ELSE IF name = "Item" THEN "second" ELSE "none"

\* createDirtyQueueMember(entityName, id)
createDirtyQueueMember(name, id) == name \o ":" \o ToString(id)

\* schema.getCacheKey(id)
getCacheKey(name, id) == <<name, id>>

\* !hasRedis || id == 0
AllValid(e) == FALSE

IsInvalidEntity(e) == SchemaRedisCache(e.name) = "none" \/ e.id = 0

\* The loop over the arguments: invalidEntities, the entities whose image
\* and message are collected, and dirty after injectBind.
RECURSIVE CachePartition(_, _, _, _)
CachePartition(args, d, invalid, valid) ==
    IF args = <<>> THEN [invalid |-> invalid, valid |-> valid, dirty |-> d]
    ELSE LET e == Head(args) IN
         IF IsInvalidEntity(e) THEN CachePartition(Tail(args), d, Append(invalid, e), valid)
         ELSE IF ~d[e] THEN CachePartition(Tail(args), d, invalid, valid)
         ELSE CachePartition(Tail(args), [d EXCEPT ![e] = FALSE], invalid, Append(valid, e))

\* redisValues[cacheCode]: the row keys collected for one pool, in order
RedisValues(valid, code) ==
    LET mine == SelectSeq(valid, LAMBDA e : SchemaRedisCache(e.name) = code)
    IN [i \in 1..Len(mine) |-> getCacheKey(mine[i].name, mine[i].id)]

\* The MSet loop placed before the Publish loop.
FlushInCacheCallsSetFirst(part, flushOk, pubFail, order, msetFail) ==
    LET eager == IF part.invalid = <<>> THEN <<>>
                 ELSE <<Call("FLUSH", Bool(flushOk),
                             [lazy |-> FALSE, transaction |-> FALSE, entities |-> part.invalid])>>
        nPub == IF pubFail = 0 THEN Len(part.valid) ELSE pubFail
        pubs == [i \in 1..nPub |->
                    Call("PUBLISH", Bool(i # pubFail),
                         createDirtyQueueMember(part.valid[i].name, part.valid[i].id))]
        nSet == IF msetFail = 0 THEN Len(order) ELSE msetFail
        sets == [i \in 1..nSet |->
                    Call("MSET", order[i], RedisValues(part.valid, order[i]))]
    IN IF part.invalid # <<>> /\ ~flushOk THEN [calls |-> eager, err |-> TRUE]
       ELSE IF msetFail # 0 THEN [calls |-> eager \o sets, err |-> TRUE]
       ELSE [calls |-> eager \o sets \o pubs, err |-> pubFail # 0]

\* The calls flushInCache makes: the eager flush of invalidEntities, one
\* Publish per collected entity, one MSet per pool; the first failure returns.
FlushInCacheCalls(part, flushOk, pubFail, order, msetFail) ==
    LET eager == IF part.invalid = <<>> THEN <<>>
                 ELSE <<Call("FLUSH", Bool(flushOk),
                             [lazy |-> FALSE, transaction |-> FALSE, entities |-> part.invalid])>>
        nPub == IF pubFail = 0 THEN Len(part.valid) ELSE pubFail
        pubs == [i \in 1..nPub |->
                    Call("PUBLISH", Bool(i # pubFail),
                         createDirtyQueueMember(part.valid[i].name, part.valid[i].id))]
        nSet == IF msetFail = 0 THEN Len(order) ELSE msetFail
        sets == [i \in 1..nSet |->
                    Call("MSET", order[i], RedisValues(part.valid, order[i]))]
    IN IF part.invalid # <<>> /\ ~flushOk THEN [calls |-> eager, err |-> TRUE]
       ELSE IF pubFail # 0 THEN [calls |-> eager \o pubs, err |-> TRUE]
       ELSE [calls |-> eager \o pubs \o sets, err |-> msetFail # 0]

\* A field of the entity is changed.
Modify(e) ==
    /\ pc = "idle"
    /\ ~dirty[e]
    /\ dirty' = [dirty EXCEPT ![e] = TRUE]
    /\ calls' = <<>>
    /\ ret' = Ret("Modify", "-", "nil", FALSE, FALSE, "")
    /\ cacheArgs' = <<>>
    /\ dirtyBefore' = dirty'
    /\ UNCHANGED <<dbVars, nestedDB, engineVars, window, consumerVars, pureVars>>

\* engine.FlushInCache(entities...)
FlushInCache(args) ==
    /\ pc = "idle"
    /\ LET part == CachePartition(args, dirty, <<>>, <<>>)
           pools == {SchemaRedisCache(part.valid[i].name) : i \in 1..Len(part.valid)}
       IN \E flushOk \in BOOLEAN, pubFail \in 0..Len(part.valid),
             first \in pools \cup {"none"}, msetFail \in 0..Cardinality(pools) :
            /\ first = "none" <=> pools = {}
            /\ LET order == IF pools = {} THEN <<>>
                            ELSE <<first>> \o SetToSeq(pools \ {first})
                   r == FlushInCacheCalls(part, flushOk, pubFail, order, msetFail)
               IN /\ calls' = r.calls
                  /\ ret' = Ret("FlushInCache", "-", Err(r.err), FALSE, FALSE, "")
            /\ dirty' = part.dirty
    /\ cacheArgs' = args
    /\ dirtyBefore' = dirty
    /\ UNCHANGED <<dbVars, nestedDB, engineVars, window, consumerVars, pureVars>>

\* ------------------------------------------------- entities (engine.go)
\* tableSchema.hasFakeDelete: the entity declares a FakeDelete field.
HasFakeDelete(e) == e = "User:1"

\* The columns of an entity's table besides the ID.
FieldNames(e) == IF HasFakeDelete(e) THEN {"Name", "FakeDelete"} ELSE {"Name"}

Names == {"a", "b"}

\* The entities the callers of the engine hold: one of a schema with the
\* FakeDelete column, one of a schema without it.
BoundEntities == {"User:1", "Tmp:1"}

\* The field values of an entity: column -> value.
Row(e, name, fakeDelete) == [c \in FieldNames(e) |-> IF c = "Name" THEN name ELSE fakeDelete]

\* orm.dBData of an entity no row was read or written for.
NoData == [c \in {} |-> ""]

\* The entities of loadedSet were loaded from their rows, the others are new.
InitEntity(loadedSet) ==
    /\ attributes = [e \in Entities |-> [loaded |-> e \in loadedSet, delete |-> FALSE]]
    /\ fields = [e \in Entities |-> Row(e, "a", FALSE)]
    /\ dBData = [e \in Entities |-> IF e \in loadedSet THEN Row(e, "a", FALSE) ELSE NoData]

\* The body of MarkToDelete's loop after Track, lines 187-192.
MarkToDeleteIgnoresFakeDelete(attrs, flds, hasFakeDelete) ==
    [attributes |-> [attrs EXCEPT !.delete = TRUE], fields |-> flds]

MarkToDeleteRow(attrs, flds, hasFakeDelete) ==
    IF hasFakeDelete
    THEN [attributes |-> attrs, fields |-> [flds EXCEPT !["FakeDelete"] = TRUE]]
    ELSE [attributes |-> [attrs EXCEPT !.delete = TRUE], fields |-> flds]

\* Engine.MarkToDelete(entity): Track, whose panic ends the call, then the mark.
MarkToDelete(e) ==
    /\ pc = "idle"
    /\ Len(trackedEntities) < MaxTracked
    /\ trackedEntitiesCounter < MaxCounter
    /\ trackedEntities' = Append(trackedEntities, e)
    /\ trackedEntitiesCounter' = trackedEntitiesCounter + 1
    /\ LET panics == trackedEntitiesCounter + 1 = TrackLimit
           m == MarkToDeleteRow(attributes[e], fields[e], HasFakeDelete(e))
       IN /\ attributes' = IF panics THEN attributes ELSE [attributes EXCEPT ![e] = m.attributes]
          /\ fields' = IF panics THEN fields ELSE [fields EXCEPT ![e] = m.fields]
          /\ ret' = Ret("MarkToDelete", e, Panic(panics), FALSE, FALSE, "")
    /\ calls' = <<>>
    /\ UNCHANGED <<consumerVars, moreVars, whereArgs, where, alterVars, getSetVars, busVars, facadeVars, lockerVars, cacheVars, lock, dbVars,
                   nestedDB, pc, dbPools, todo, trackedBefore, window, dBData>>

\* Engine.ForceMarkToDelete(entity): the flag, then Track.
ForceMarkToDelete(e) ==
    /\ pc = "idle"
    /\ Len(trackedEntities) < MaxTracked
    /\ trackedEntitiesCounter < MaxCounter
    /\ attributes' = [attributes EXCEPT ![e].delete = TRUE]
    /\ trackedEntities' = Append(trackedEntities, e)
    /\ trackedEntitiesCounter' = trackedEntitiesCounter + 1
    /\ ret' = Ret("ForceMarkToDelete", e, Panic(trackedEntitiesCounter + 1 = TrackLimit),
                  FALSE, FALSE, "")
    /\ calls' = <<>>
    /\ UNCHANGED <<consumerVars, moreVars, whereArgs, where, alterVars, getSetVars, busVars, facadeVars, lockerVars, cacheVars, lock, dbVars,
                   nestedDB, pc, dbPools, todo, trackedBefore, window, fields, dBData>>

\* The caller assigns another value to the entity's Name field.
SetField(e) ==
    /\ pc = "idle"
    /\ \E n \in Names \ {fields[e]["Name"]} :
         fields' = [fields EXCEPT ![e]["Name"] = n]
    /\ calls' = <<>>
    /\ ret' = Ret("SetField", e, "nil", FALSE, FALSE, "")
    /\ UNCHANGED <<consumerVars, moreVars, whereArgs, where, alterVars, getSetVars, busVars, facadeVars, lockerVars, cacheVars, dbVars,
                   nestedDB, engineVars, window, attributes, dBData>>

\* The columns whose field value differs from the dBData snapshot.
Bind(flds, data) == {c \in DOMAIN flds : c \notin DOMAIN data \/ flds[c] # data[c]}

\* getDirtyBind(entity): an insert, a delete, or a non-empty bind.
getDirtyBind(attrs, flds, data) ==
    \/ ~attrs.loaded /\ ~attrs.delete
    \/ attrs.delete
    \/ Bind(flds, data) # {}

\* Engine.Loaded(entity)
Loaded(attrs) == attrs.loaded

\* Engine.IsDirty(entity), lines 226-234.
IsDirtyLoadedOnly(attrs, flds, data) ==
    IF ~Loaded(attrs) THEN FALSE ELSE getDirtyBind(attrs, flds, data)

IsDirtyOf(attrs, flds, data) ==
    IF ~Loaded(attrs) THEN TRUE ELSE getDirtyBind(attrs, flds, data)

\* ret.db is the entity asked about, ret.found what IsDirty returned.
IsDirty(e) ==
    /\ pc = "idle"
    /\ calls' = <<>>
    /\ ret' = Ret("IsDirty", e, "nil", FALSE,
                  IsDirtyOf(attributes[e], fields[e], dBData[e]), "")
    /\ UNCHANGED <<consumerVars, moreVars, whereArgs, where, alterVars, getSetVars, busVars, facadeVars, lockerVars, cacheVars, dbVars,
                   nestedDB, engineVars, window, attributes, fields, dBData>>

\* The statement flush issues for one entity.
FlushQuery(e) ==
    Call(IF attributes[e].delete THEN "DELETE"
         ELSE IF ~attributes[e].loaded THEN "INSERT" ELSE "UPDATE",
         SchemaPool(e), e)

\* The statements flush issues for the tracked list: one per dirty entity.
FlushQueries(list) ==
    LET isDirtyAt(i) == getDirtyBind(attributes[list[i]], fields[list[i]], dBData[list[i]])
        rows == SelectSeq([i \in 1..Len(list) |-> i], LAMBDA i : isDirtyAt(i))
    IN [i \in 1..Len(rows) |-> FlushQuery(list[rows[i]])]

\* Engine.Flush(): flushTrackedEntities(false, false) with no transaction to
\* open; after the statements flush refreshes the snapshots and sets loaded.
Flush ==
    /\ pc = "idle"
    /\ trackedBefore' = trackedEntities
    /\ IF trackedEntitiesCounter = 0
       THEN /\ calls' = <<>>
            /\ ret' = Ret("Flush", "-", "nil", FALSE, FALSE, "")
            /\ UNCHANGED <<trackedEntities, trackedEntitiesCounter, attributes, dBData>>
       ELSE \E failed \in BOOLEAN :
              LET queries == FlushQueries(trackedEntities)
                  flushed == Range(trackedEntities)
              IN /\ failed => queries # <<>>
                 /\ \E k \in 0..Len(queries) :
                      /\ IF failed THEN k < Len(queries) ELSE k = Len(queries)
                      /\ calls' = SubSeq(queries, 1, k)
                 /\ ret' = Ret("Flush", "-", Err(failed), FALSE, FALSE, "")
                 /\ trackedEntities' = TrackedOnExit(trackedEntities, failed)
                 /\ trackedEntitiesCounter' = CounterOnExit(trackedEntitiesCounter, failed)
                 /\ IF failed
                    THEN UNCHANGED <<attributes, dBData>>
                    ELSE /\ attributes' = [e \in Entities |->
                                IF e \in flushed THEN [attributes[e] EXCEPT !.loaded = TRUE]
                                ELSE attributes[e]]
                         /\ dBData' = [e \in Entities |->
                                IF e \in flushed THEN fields[e] ELSE dBData[e]]
    /\ UNCHANGED <<consumerVars, moreVars, whereArgs, where, alterVars, getSetVars, busVars, facadeVars, lockerVars, cacheVars, lock, dbVars,
                   nestedDB, pc, dbPools, todo, window, fields>>

\* ------------------------------------------ rabbitMQConnection (part_002)
\* sender = true: clientSender; sender = false: clientReceivers
Sides == {"sender", "receivers"}

Other(side) == IF side = "sender" THEN "receivers" ELSE "sender"

NilClient == [conn |-> 0, closed |-> FALSE]

InitBus ==
    /\ reachable = TRUE
    /\ clients = [side \in Sides |-> NilClient]
    /\ keepers = [side \in Sides |-> 0]

\* rabbitMQConnection.connect(sender): Dial, then the assignment of the side's
\* client; the new connection's keepConnection goroutine waits for its close.
connectBothSides(cl, side, dialOk) ==
    IF ~dialOk THEN [clients |-> cl, err |-> TRUE]
    ELSE [clients |-> [s \in Sides |-> [conn |-> cl[side].conn + 1, closed |-> FALSE]],
          err |-> FALSE]

connect(cl, side, dialOk) ==
    IF ~dialOk THEN [clients |-> cl, err |-> TRUE]
    ELSE [clients |-> [cl EXCEPT ![side] = [conn |-> cl[side].conn + 1, closed |-> FALSE]],
          err |-> FALSE]

\* Dialling connections are numbered up to MaxConns on each side.
CanDial(side) == clients[side].conn + keepers[side] < MaxConns

\* rabbitMQChannel.getClient(sender, force), lines 257-276: called by
\* initChannel when a channel is opened for a publish or a consumer.
GetClient(side, force) ==
    /\ CanDial(side)
    /\ IF clients[side].conn = 0 \/ force
       THEN IF clients[side].conn = 0 \/ clients[side].closed
            THEN clients' = connect(clients, side, reachable).clients
            ELSE UNCHANGED clients
       ELSE UNCHANGED clients
    /\ UNCHANGED <<otherVars, consumerVars, moreVars, whereArgs, where, alterVars, getSetVars, entityVars, facadeVars, lockerVars,
                   reachable, keepers>>

\* The side's connection closes: NotifyClose delivers the error to the
\* goroutine keepConnection started for it.
ConnectionClosed(side) ==
    /\ clients[side].conn # 0 /\ ~clients[side].closed
    /\ CanDial(side)
    /\ clients' = [clients EXCEPT ![side].closed = TRUE]
    /\ keepers' = [keepers EXCEPT ![side] = @ + 1]
    /\ UNCHANGED <<otherVars, consumerVars, moreVars, whereArgs, where, alterVars, getSetVars, entityVars, facadeVars, lockerVars,
                   reachable>>

\* keepConnection's goroutine after `err := <-errChannel`: one call of
\* connect, whose error is dropped.
KeepConnection(side) ==
    /\ keepers[side] > 0
    /\ keepers' = [keepers EXCEPT ![side] = @ - 1]
    /\ clients' = connect(clients, side, reachable).clients
    /\ UNCHANGED <<otherVars, consumerVars, moreVars, whereArgs, where, alterVars, getSetVars, entityVars, facadeVars, lockerVars,
                   reachable>>

\* The broker stops or starts accepting connections.
BrokerLost ==
    /\ reachable
    /\ reachable' = FALSE
    /\ UNCHANGED <<otherVars, consumerVars, moreVars, whereArgs, where, alterVars, getSetVars, entityVars, facadeVars, lockerVars,
                   clients, keepers>>

BrokerBack ==
    /\ ~reachable
    /\ reachable' = TRUE
    /\ UNCHANGED <<otherVars, consumerVars, moreVars, whereArgs, where, alterVars, getSetVars, entityVars, facadeVars, lockerVars,
                   clients, keepers>>

\* ------------------------------------- RabbitMQ accessors (engine.go)
\* The queue configs handed to RegisterRabbitMQQueue.
\* Registry.GetDirtyQueues(): the registered dirty queue codes
DirtyQueues == {"user_changed"}

DirtyQueueName(queueCode) == "dirty_queue_" \o queueCode

\* the queue the registry declares for each dirty queue
DirtyQueueChannels ==
    {[Name |-> DirtyQueueName(code), Router |-> "", Delayed |-> FALSE] : code \in DirtyQueues}

QueueConfigs ==
    { [Name |-> "test_queue", Router |-> "", Delayed |-> FALSE],
      [Name |-> "test_queue_delayed", Router |-> "", Delayed |-> TRUE],
      [Name |-> "test_delayed_router", Router |-> "test_router", Delayed |-> TRUE],
      [Name |-> "test_queue_router", Router |-> "test_router", Delayed |-> FALSE] }
        \cup DirtyQueueChannels

\* The registry's validation: a delayed queue declared without a router is
\* bound to a router of its own name.
RegisteredChannel(config) ==
    IF config.Delayed /\ config.Router = ""
    THEN [config EXCEPT !.Router = config.Name]
    ELSE config

\* Engine.rabbitMQChannels: name -> the channel's config
rabbitMQChannels == {RegisteredChannel(config) : config \in QueueConfigs}

ChannelNames == {config.Name : config \in rabbitMQChannels} \cup {"missing"}

ChannelOf(name) == CHOOSE config \in rabbitMQChannels : config.Name = name

Accessors == {"GetRabbitMQQueue", "GetRabbitMQDelayedQueue", "GetRabbitMQRouter"}

NoFacade == 0

InitFacades ==
    /\ rabbitMQQueues = [name \in ChannelNames |-> NoFacade]
    /\ rabbitMQDelayedQueues = [name \in ChannelNames |-> NoFacade]
    /\ rabbitMQRouters = [name \in ChannelNames |-> NoFacade]
    /\ got = [accessor |-> "-", name |-> "-", panic |-> FALSE, facade |-> NoFacade,
              before |-> NoFacade]

\* The panics of an accessor for a registered channel: lines 285-287,
\* 304-309, 326-331.
AccessorPanicsQueueUnchecked(accessor, config) ==
    IF accessor = "GetRabbitMQQueue" THEN FALSE
    ELSE IF accessor = "GetRabbitMQDelayedQueue"
    THEN config.Router = "" \/ ~config.Delayed
    ELSE config.Router = "" \/ config.Delayed

AccessorPanics(accessor, config) ==
    IF accessor = "GetRabbitMQQueue" THEN config.Router # ""
    ELSE IF accessor = "GetRabbitMQDelayedQueue"
    THEN config.Router = "" \/ ~config.Delayed
    ELSE config.Router = "" \/ config.Delayed

\* The facades created so far; a new one is another object.
Facades ==
    {rabbitMQQueues[n] : n \in ChannelNames} \cup {rabbitMQDelayedQueues[n] : n \in ChannelNames}
        \cup {rabbitMQRouters[n] : n \in ChannelNames}

NewFacade == (CHOOSE f \in Facades : \A g \in Facades : g <= f) + 1

\* One accessor on its own map: the cached entry, the two panics, the new
\* entry.
Accessor(accessor, cache, name) ==
    IF cache[name] # NoFacade
    THEN [cache |-> cache, panic |-> FALSE, facade |-> cache[name]]
    ELSE IF name \notin {config.Name : config \in rabbitMQChannels}
    THEN [cache |-> cache, panic |-> TRUE, facade |-> NoFacade]
    ELSE IF AccessorPanics(accessor, ChannelOf(name))
    THEN [cache |-> cache, panic |-> TRUE, facade |-> NoFacade]
    ELSE [cache |-> [cache EXCEPT ![name] = NewFacade], panic |-> FALSE, facade |-> NewFacade]

Got(accessor, name, r, before) ==
    [accessor |-> accessor, name |-> name, panic |-> r.panic, facade |-> r.facade,
     before |-> before]

\* Engine.GetRabbitMQQueue(queueName)
GetRabbitMQQueue(name) ==
    LET r == Accessor("GetRabbitMQQueue", rabbitMQQueues, name) IN
    /\ rabbitMQQueues' = r.cache
    /\ got' = Got("GetRabbitMQQueue", name, r, rabbitMQQueues[name])
    /\ UNCHANGED <<otherVars, consumerVars, moreVars, whereArgs, where, alterVars, getSetVars, entityVars, lockerVars,
                   busVars, rabbitMQDelayedQueues, rabbitMQRouters>>

\* Engine.GetRabbitMQDelayedQueue(queueName)
GetRabbitMQDelayedQueue(name) ==
    LET r == Accessor("GetRabbitMQDelayedQueue", rabbitMQDelayedQueues, name) IN
    /\ rabbitMQDelayedQueues' = r.cache
    /\ got' = Got("GetRabbitMQDelayedQueue", name, r, rabbitMQDelayedQueues[name])
    /\ UNCHANGED <<otherVars, consumerVars, moreVars, whereArgs, where, alterVars, getSetVars, entityVars, lockerVars,
                   busVars, rabbitMQQueues, rabbitMQRouters>>

\* Engine.GetRabbitMQRouter(channelName)
GetRabbitMQRouter(name) ==
    LET r == Accessor("GetRabbitMQRouter", rabbitMQRouters, name) IN
    /\ rabbitMQRouters' = r.cache
    /\ got' = Got("GetRabbitMQRouter", name, r, rabbitMQRouters[name])
    /\ UNCHANGED <<otherVars, consumerVars, moreVars, whereArgs, where, alterVars, getSetVars, entityVars, lockerVars,
                   busVars, rabbitMQQueues, rabbitMQDelayedQueues>>

\* ------------------------------------------------------------- Locker
LockNames == {"test", "my_lock"}

NoLock == 0

NoObtain == [name |-> "-", ttl |-> 0, has |-> FALSE, lock |-> NoLock, err |-> "nil",
             held |-> FALSE]

InitLocker ==
    /\ lockExpired = FALSE
    /\ lockKeys = [name \in LockNames |-> NoLock]
    /\ lockHandles = <<>>
    /\ obtained = NoObtain

\* The locks of a name that are held: obtained, not released, not expired.
Holders(name) ==
    {h \in 1..Len(lockHandles) : lockHandles[h].name = name /\ lockHandles[h].state = "held"}

\* Locker.Obtain(name, ttl, waitTimeout) when the wait is over: the error for
\* a zero ttl, has = false with a nil lock while the key is taken, else a new
\* lock holding the key.
Obtain(name, ttl) ==
    /\ Len(lockHandles) < MaxLocks
    /\ IF ttl = 0
       THEN /\ obtained' = [name |-> name, ttl |-> ttl, has |-> FALSE, lock |-> NoLock,
                            err |-> "ttl must be greater than zero",
                            held |-> Holders(name) # {}]
            /\ UNCHANGED <<lockKeys, lockHandles>>
       ELSE IF lockKeys[name] # NoLock
       THEN /\ obtained' = [name |-> name, ttl |-> ttl, has |-> FALSE, lock |-> NoLock,
                            err |-> "nil", held |-> Holders(name) # {}]
            /\ UNCHANGED <<lockKeys, lockHandles>>
       ELSE /\ lockHandles' = Append(lockHandles, [name |-> name, state |-> "held"])
            /\ lockKeys' = [lockKeys EXCEPT ![name] = Len(lockHandles) + 1]
            /\ obtained' = [name |-> name, ttl |-> ttl, has |-> TRUE,
                            lock |-> Len(lockHandles) + 1, err |-> "nil",
                            held |-> Holders(name) # {}]
    /\ UNCHANGED <<otherVars, consumerVars, moreVars, whereArgs, where, alterVars, getSetVars, entityVars,
                   busVars, facadeVars, lockExpired>>

\* The key a Release deletes: the name's key when this lock still holds it.
ReleaseAnyKey(keys, h, name) == [keys EXCEPT ![name] = NoLock]

ReleaseKey(keys, h, name) == IF keys[name] = h THEN [keys EXCEPT ![name] = NoLock] ELSE keys

\* Lock.Release()
Release(h) ==
    /\ h \in 1..Len(lockHandles)
    /\ lockKeys' = ReleaseKey(lockKeys, h, lockHandles[h].name)
    /\ lockHandles' = [lockHandles EXCEPT ![h].state = "released"]
    /\ UNCHANGED <<otherVars, consumerVars, moreVars, whereArgs, where, alterVars, getSetVars, entityVars,
                   busVars, facadeVars, lockExpired, obtained>>

\* The TTL of the lock holding the name's key runs out.
Expire(name) ==
    /\ lockKeys[name] # NoLock
    /\ lockKeys' = [lockKeys EXCEPT ![name] = NoLock]
    /\ lockHandles' = [lockHandles EXCEPT ![lockKeys[name]].state = "expired"]
    /\ UNCHANGED <<otherVars, consumerVars, moreVars, whereArgs, where, alterVars, getSetVars, entityVars,
                   busVars, facadeVars, lockExpired, obtained>>

\* ------------------------------------------------ Flusher (flush_in_cache.go)
FlusherItems == {"a", "b"}

\* RegisterEntity's argument lists
FlusherArgs == {<<x>> : x \in FlusherItems} \cup {<<x, y>> : x, y \in FlusherItems}

NoFlushed == [op |-> "-", args |-> <<>>, before |-> <<>>, lists |-> <<>>, err |-> "nil"]

\* NewFlusher(limit, autoFlush)
NewFlusher(limit, autoFlush) ==
    [limit |-> limit, autoFlush |-> autoFlush, entities |-> <<>>, currentIndex |-> 0]

InitFlusher(limit, autoFlush) ==
    /\ flusher = NewFlusher(limit, autoFlush)
    /\ flusherRet = NoFlushed

\* Flusher.Flush(): flush(f.lazy, f.entities...), then the reset.
FlusherFlush(f, ok) ==
    IF ~ok THEN [f |-> f, err |-> "flush", list |-> f.entities]
    ELSE [f |-> [f EXCEPT !.currentIndex = 0, !.entities = <<>>], err |-> "nil",
          list |-> f.entities]

\* Flusher.RegisterEntity(entities...): the loop over the arguments; oks are
\* the outcomes of the flushes it runs, in order.
RECURSIVE RegisterLoop(_, _, _, _)
RegisterLoop(f, args, oks, lists) ==
    IF args = <<>> THEN [f |-> f, err |-> "nil", lists |-> lists]
    ELSE IF f.currentIndex = f.limit
    THEN IF ~f.autoFlush THEN [f |-> f, err |-> "limit", lists |-> lists]
         ELSE LET r == FlusherFlush(f, Head(oks)) IN
              IF r.err # "nil" THEN [f |-> r.f, err |-> r.err, lists |-> Append(lists, r.list)]
              ELSE RegisterLoop([r.f EXCEPT !.entities = Append(@, Head(args)),
                                            !.currentIndex = @ + 1],
                                Tail(args), Tail(oks), Append(lists, r.list))
    ELSE RegisterLoop([f EXCEPT !.entities = Append(@, Head(args)), !.currentIndex = @ + 1],
                      Tail(args), oks, lists)

\* Flusher.RegisterEntity(entities...)
RegisterEntity(args) ==
    /\ Len(flusher.entities) + Len(args) <= MaxBuffer
    /\ \E oks \in [1..Len(args) -> BOOLEAN] :
         LET r == RegisterLoop(flusher, args, oks, <<>>) IN
         /\ flusher' = r.f
         /\ flusherRet' = [op |-> "RegisterEntity", args |-> args, before |-> flusher.entities,
                        lists |-> r.lists, err |-> r.err]
    /\ UNCHANGED <<otherVars, consumerVars, whereArgs, where, alterVars, getSetVars, entityVars,
                   busVars, facadeVars, lockerVars, publishVars, dirtyRet>>

\* Flusher.Flush()
FlushFlusher ==
    /\ \E ok \in BOOLEAN :
         LET r == FlusherFlush(flusher, ok) IN
         /\ flusher' = r.f
         /\ flusherRet' = [op |-> "Flush", args |-> <<>>, before |-> flusher.entities,
                        lists |-> <<r.list>>, err |-> r.err]
    /\ UNCHANGED <<otherVars, consumerVars, whereArgs, where, alterVars, getSetVars, entityVars,
                   busVars, facadeVars, lockerVars, publishVars, dirtyRet>>

\* ------------------------------------------ rabbitMQChannel.publish (part_002)
Bodies == {"m1", "m2"}

\* the routing key: the queue's name, or a router key
RoutingKeys == {"test_queue", "aa", "bb"}

\* what channelSender.Publish returns: nil, an *amqp.Error with the code
\* ChannelError, any other error
PublishOutcomes == {"nil", "channel", "other"}

NilChannel == 0

NoPublish == [routingKey |-> "-", msg |-> "-", events |-> <<>>, err |-> "nil"]

InitPublish ==
    /\ channelSender = NilChannel
    /\ publishRet = NoPublish

\* rabbitMQChannel.initChannelSender(force): a new channel when there is none
\* or when forced; a failed initChannel leaves channelSender as it was.
initChannelSender(sender, force, ok) ==
    IF sender = NilChannel \/ force
    THEN IF ok THEN [sender |-> sender + 1, err |-> "nil",
                     events |-> <<[k |-> "initChannel", arg |-> "nil", channel |-> sender + 1]>>]
         ELSE [sender |-> sender, err |-> "init",
               events |-> <<[k |-> "initChannel", arg |-> "init", channel |-> sender]>>]
    ELSE [sender |-> sender, err |-> "nil", events |-> <<>>]

Attempt(sender, outcome) == [k |-> "Publish", arg |-> outcome, channel |-> sender]

\* the test that lets publish try again
RetriesAnyError(outcome) == outcome # "nil"

Retries(outcome) == outcome = "channel"

\* rabbitMQChannel.publish(mandatory, immediate, routingKey, msg)
publish(sender, initOk, first, reinitOk, second) ==
    LET i == initChannelSender(sender, FALSE, initOk) IN
    IF i.err # "nil" THEN [sender |-> i.sender, events |-> i.events, err |-> i.err]
    ELSE LET e1 == Append(i.events, Attempt(i.sender, first)) IN
         IF first # "nil" /\ Retries(first)
         THEN LET j == initChannelSender(i.sender, TRUE, reinitOk) IN
              IF j.err # "nil"
              THEN [sender |-> j.sender, events |-> e1 \o j.events, err |-> j.err]
              ELSE [sender |-> j.sender,
                    events |-> (e1 \o j.events) \o <<Attempt(j.sender, second)>>,
                    err |-> second]
         ELSE [sender |-> i.sender, events |-> e1, err |-> first]

\* RabbitMQQueue.Publish(body), RabbitMQRouter.Publish(routerKey, body)
QueuePublish(routingKey, body) ==
    /\ channelSender < MaxChannels
    /\ \E initOk, reinitOk \in BOOLEAN, first, second \in PublishOutcomes :
         LET r == publish(channelSender, initOk, first, reinitOk, second) IN
         /\ channelSender' = r.sender
         /\ publishRet' = [routingKey |-> routingKey, msg |-> body, events |-> r.events, err |-> r.err]
    /\ UNCHANGED <<otherVars, consumerVars, whereArgs, where, alterVars, getSetVars, entityVars,
                   busVars, facadeVars, lockerVars, flusherVars, dirtyRet>>

\* ------------------------------------------------ Engine.MarkDirty (engine.go)
\* tableSchema.t.String() of the entities marked
DirtyEntities == {"orm.User", "orm.Order"}

QueueCodes == DirtyQueues \cup {"unknown"}

DirtyIds == {<<>>} \cup {<<i>> : i \in 1..MaxIds} \cup {<<i, j>> : i, j \in 1..MaxIds}

NoMarkDirty ==
    [op |-> "-", entity |-> "-", queueCode |-> "-", ids |-> <<>>, messages |-> <<>>,
     tried |-> 0, attempts |-> 0, err |-> "nil", panic |-> FALSE]

InitMarkDirty == dirtyRet = NoMarkDirty

\* how one publish of the loop can go: no channel, accepted, refused, accepted
\* on a new channel after a channel error, refused there
PublishCases ==
    {[initOk |-> FALSE, first |-> "nil", reinitOk |-> TRUE, second |-> "nil"],
     [initOk |-> TRUE, first |-> "nil", reinitOk |-> TRUE, second |-> "nil"],
     [initOk |-> TRUE, first |-> "other", reinitOk |-> TRUE, second |-> "nil"],
     [initOk |-> TRUE, first |-> "channel", reinitOk |-> TRUE, second |-> "nil"],
     [initOk |-> TRUE, first |-> "channel", reinitOk |-> TRUE, second |-> "other"]}

\* &DirtyQueueValue{Updated: true, ID: id, EntityName: entityName} on its queue
DirtyQueueValue(queue, entityName, id) ==
    [queue |-> queue, EntityName |-> entityName, ID |-> id, Updated |-> TRUE]

\* the return inside the loop
ReturnsNever(err) == FALSE

Returns(err) == err # "nil"

\* the loop over the ids: one channel.Publish each, left at the first error
RECURSIVE MarkDirtyLoop(_, _, _, _, _, _)
MarkDirtyLoop(sender, queue, entityName, ids, cases, acc) ==
    IF ids = <<>> THEN [acc EXCEPT !.sender = sender]
    ELSE LET c == Head(cases)
             r == publish(sender, c.initOk, c.first, c.reinitOk, c.second)
             acc1 == [acc EXCEPT !.sender = r.sender,
                                 !.tried = @ + 1,
                                 !.attempts = @ + Cardinality({i \in 1..Len(r.events) :
                                                                 r.events[i].k = "Publish"}),
                                 !.err = IF r.err # "nil" THEN r.err ELSE @,
                                 !.messages = IF r.err = "nil"
                                              THEN Append(@, DirtyQueueValue(queue, entityName,
                                                                             Head(ids)))
                                              ELSE @]
         IN IF Returns(r.err) THEN acc1
            ELSE MarkDirtyLoop(r.sender, queue, entityName, Tail(ids), Tail(cases), acc1)

\* Engine.MarkDirty(entity, queueCode, ids...)
MarkDirty(entity, queueCode, ids) ==
    LET done(messages, tried, attempts, err, panic) ==
            [op |-> "MarkDirty", entity |-> entity, queueCode |-> queueCode, ids |-> ids,
             messages |-> messages, tried |-> tried, attempts |-> attempts, err |-> err,
             panic |-> panic]
    IN
    IF queueCode \notin DirtyQueues
    THEN /\ dirtyRet' = done(<<>>, 0, 0, "unknown dirty queue", FALSE)
         /\ UNCHANGED <<otherVars, consumerVars, whereArgs, where, alterVars, getSetVars,
                        entityVars, busVars, facadeVars, lockerVars, flusherVars, publishVars>>
    ELSE LET name == DirtyQueueName(queueCode)
             a == Accessor("GetRabbitMQQueue", rabbitMQQueues, name)
         IN /\ rabbitMQQueues' = a.cache
            /\ got' = Got("GetRabbitMQQueue", name, a, rabbitMQQueues[name])
            /\ IF a.panic
               THEN /\ dirtyRet' = done(<<>>, 0, 0, "nil", TRUE)
                    /\ UNCHANGED publishVars
               ELSE \E cases \in [1..Len(ids) -> PublishCases] :
                      LET r == MarkDirtyLoop(channelSender, name, entity, ids, cases,
                                             [sender |-> channelSender, messages |-> <<>>,
                                              tried |-> 0, attempts |-> 0, err |-> "nil"])
                      IN /\ r.sender <= MaxChannels
                         /\ channelSender' = r.sender
                         /\ UNCHANGED publishRet
                         /\ dirtyRet' = done(r.messages, r.tried, r.attempts, r.err, FALSE)
            /\ UNCHANGED <<otherVars, consumerVars, whereArgs, where, alterVars, getSetVars,
                           entityVars, busVars, rabbitMQDelayedQueues, rabbitMQRouters,
                           lockerVars, flusherVars>>

\* ------------------------------------------------------- NewWhere (where.go)
\* strings.Index(s, old) searched from offset k: the 0-based index of the
\* first occurrence at or after k, -1 when there is none
IndexFrom(s, old, k) ==
    LET found == { i \in k..(Len(s) - Len(old)) : SubSeq(s, i + 1, i + Len(old)) = old }
    IN IF found = {} THEN 0 - 1
       ELSE CHOOSE i \in found : \A j \in found : i <= j

\* strings.Contains(s, old)
Contains(sql, text) == IndexFrom(sql, text, 0) >= 0

\* strings.Repeat(s, n)
RECURSIVE stringsRepeat(_, _)
stringsRepeat(s, n) == IF n = 0 THEN "" ELSE s \o stringsRepeat(s, n - 1)

\* strings.TrimLeft(s, ",")
RECURSIVE TrimLeftComma(_)
TrimLeftComma(s) ==
    IF Len(s) > 0 /\ SubSeq(s, 1, 1) = "," THEN TrimLeftComma(SubSeq(s, 2, Len(s))) ELSE s

\* replaceNth's loop, at occurrence m with the search offset i
RECURSIVE replaceNthLoop(_, _, _, _, _, _)
replaceNthLoop(s, old, new, n, i, m) ==
    IF m > n THEN s
    ELSE LET x == IndexFrom(s, old, i) IN
         IF x < 0 THEN s
         ELSE IF m = n THEN SubSeq(s, 1, x) \o new \o SubSeq(s, x + Len(old) + 1, Len(s))
         ELSE replaceNthLoop(s, old, new, n, x + Len(old), m + 1)

replaceNth(s, old, new, n) == replaceNthLoop(s, old, new, n, 0, 1)

\* A parameter: its reflect kind and its values (one value for a scalar).
Scalar(v) == [kind |-> "int", val |-> <<v>>]
Slice(vs) == [kind |-> "slice", val |-> vs]

\* NewWhere's loop, at parameter key + 1
RECURSIVE NewWhereLoop(_, _, _, _)
NewWhereLoop(query, parameters, key, finalParameters) ==
    IF key = Len(parameters) THEN [query |-> query, parameters |-> finalParameters]
    ELSE LET value == parameters[key + 1] IN
         IF value.kind \in {"slice", "array"}
         THEN LET in == TrimLeftComma(stringsRepeat(",?", Len(value.val)))
              IN NewWhereLoop(replaceNth(query, "IN ?", "IN (" \o in \o ")", key + 1),
                              parameters, key + 1, finalParameters \o value.val)
         ELSE NewWhereLoop(query, parameters, key + 1, Append(finalParameters, value.val[1]))

\* The templates and parameters NewWhere is called with: conditions on the
\* columns a, b, c, ... joined by AND, each "col=?" or "col IN ?".
Columns == <<"a", "b", "c", "d", "e">>

Condition(i, isIn) == Columns[i] \o (IF isIn THEN " IN ?" ELSE "=?")

RECURSIVE Template(_, _)
Template(kinds, n) ==
    IF n = 0 THEN ""
    ELSE IF n = 1 THEN Condition(1, kinds[1])
    ELSE Template(kinds, n - 1) \o " AND " \o Condition(n, kinds[n])

ParameterValues ==
    {Scalar(100)} \cup {Slice([i \in 1..n |-> i]) : n \in 0..MaxIn}

WhereInputs ==
    UNION { { [query |-> Template(kinds, n), parameters |-> ps, kinds |-> kinds] :
                kinds \in [1..n -> BOOLEAN], ps \in [1..n -> ParameterValues] } :
            n \in 1..MaxConds }

NoWhere == [query |-> "", parameters |-> <<>>, done |-> FALSE]

InitWhere(args) ==
    /\ whereArgs = args
    /\ where = NoWhere

\* orm.NewWhere(query, parameters...)
NewWhere ==
    /\ ~where.done
    /\ LET r == NewWhereLoop(whereArgs.query, whereArgs.parameters, 0, <<>>) IN
       where' = [query |-> r.query, parameters |-> r.parameters, done |-> TRUE]
    /\ UNCHANGED <<otherVars, consumerVars, whereArgs, alterVars, restVars>>

\* ------------------------------------------------- getAlters (part_003)
\* The SQL text is built as the code builds it, with ' written for the
\* backquote. Every table lives in database db of pool default.
TableNames == <<"a", "bb", "ccc", "dddd">>

Tables == {TableNames[i] : i \in 1..MaxTables}

Alter(sql, safe, pool) == [SQL |-> sql, Safe |-> safe, Pool |-> pool]

\* fmt.Sprintf("ALTER TABLE `%s`.`%s`\n", pool.GetDatabaseName(), tableName)
AlterTableSQL(t) == "ALTER TABLE 'db'.'" \o t \o "'\n"

KeyName(t, i) == "db:" \o t \o ":K" \o ToString(i)

\* strings.TrimRight(s, cutset)
RECURSIVE stringsTrimRight(_, _)
stringsTrimRight(s, cutset) ==
    IF s # "" /\ SubSeq(s, Len(s), Len(s)) \in cutset
    THEN stringsTrimRight(SubSeq(s, 1, Len(s) - 1), cutset)
    ELSE s

buildCreateForeignKeySQL(keyName) ==
    "ADD CONSTRAINT '" \o keyName \o "' FOREIGN KEY ('Ref') REFERENCES 'db'.'parent' ('ID') ON DELETE RESTRICT"

\* buildCreateForeignKeySQL for any definition
ForeignKeySQL(keyName, definition) ==
    "ADD CONSTRAINT '" \o keyName \o "' FOREIGN KEY ('" \o definition.Column
    \o "') REFERENCES '" \o definition.ParentDatabase \o "'.'" \o definition.Table
    \o "' ('ID') ON DELETE " \o definition.OnDelete

\* the lines of alterSQLRemoveForeignKey / alterSQLAddForeignKey for keys i..n
RECURSIVE RemoveForeignKeyLines(_, _, _)
RemoveForeignKeyLines(t, i, n) ==
    IF i > n THEN ""
    ELSE "    DROP FOREIGN KEY '" \o KeyName(t, i) \o "'" \o "," \o "\n"
         \o RemoveForeignKeyLines(t, i + 1, n)

RECURSIVE AddForeignKeyLines(_, _, _)
AddForeignKeyLines(t, i, n) ==
    IF i > n THEN ""
    ELSE "    " \o buildCreateForeignKeySQL(KeyName(t, i)) \o "," \o "\n"
         \o AddForeignKeyLines(t, i + 1, n)

\* What the diff of one table found besides foreign keys, in the order the
\* clauses enter newAlters: droppedColumns, newColumns, changedColumns,
\* droppedIndexes, newIndexes.
ChangeOrder ==
    <<"dropColumn", "addNullable", "addNotNull", "changeColumn", "dropIndex", "addIndex">>

ChangeKinds == {ChangeOrder[i] : i \in 1..Len(ChangeOrder)}

ChangeSQL(kind) ==
    CASE kind = "dropColumn" -> "DROP COLUMN 'Old'"
      [] kind = "addNullable" -> "ADD COLUMN 'Age' int(10) DEFAULT NULL"
      [] kind = "addNotNull" -> "ADD COLUMN 'Cnt' int(10) unsigned NOT NULL DEFAULT '0' AFTER 'ID'"
      [] kind = "changeColumn" -> "CHANGE COLUMN 'Name' 'Name' varchar(100) DEFAULT NULL AFTER 'ID'"
      [] kind = "dropIndex" -> "DROP INDEX 'NameIndex'"
      [] kind = "addIndex" -> "ADD INDEX 'AgeIndex' ('Age')"

ChangeComment(kind) ==
    IF kind = "changeColumn" THEN "/*CHANGED FROM 'Name' varchar(255) DEFAULT NULL*/" ELSE ""

\* alterSQL: every clause but the last with "," and its comment, the last
\* with ";" and its comment
RECURSIVE NormalAlterLines(_, _)
NormalAlterLines(newAlters, x) ==
    IF x > Len(newAlters) THEN ""
    ELSE "    " \o ChangeSQL(newAlters[x])
         \o (IF x < Len(newAlters) THEN "," ELSE ";")
         \o ChangeComment(newAlters[x])
         \o (IF x < Len(newAlters) THEN "\n" ELSE "")
         \o NormalAlterLines(newAlters, x + 1)

\* safe := len(droppedColumns) == 0 && len(changedColumns) == 0, else isTableEmpty
NormalAlterAlwaysSafe(changes, isEmpty) == TRUE

NormalAlterSafe(changes, isEmpty) ==
    IF "dropColumn" \notin changes /\ "changeColumn" \notin changes THEN TRUE ELSE isEmpty

\* the table is missing: CREATE TABLE, and its foreign keys in a second statement
CreateTableAlters(p) ==
    <<Alter("CREATE TABLE 'db'.'" \o p.table \o "' (\n"
            \o "  'ID' int(10) unsigned NOT NULL AUTO_INCREMENT,\n"
            \o "  PRIMARY KEY ('ID')\n" \o ") ENGINE=InnoDB DEFAULT CHARSET=utf8;",
            TRUE, "default")>>
    \o (IF p.addKeys > 0
        THEN <<Alter(stringsTrimRight(AlterTableSQL(p.table)
                                        \o AddForeignKeyLines(p.table, 1, p.addKeys),
                                      {",", "\n"}) \o ";",
                     TRUE, "default")>>
        ELSE <<>>)

\* TableSchema.GetSchemaChanges, from the diff on: one statement for the
\* column and index changes, one dropping foreign keys, one adding foreign keys.
GetSchemaChanges(p) ==
    IF ~p.hasTable THEN CreateTableAlters(p) ELSE
    (IF p.changes # {}
     THEN <<Alter(AlterTableSQL(p.table)
                    \o NormalAlterLines(SelectSeq(ChangeOrder, LAMBDA k : k \in p.changes), 1),
                  NormalAlterSafe(p.changes, p.isEmpty), "default")>>
     ELSE <<>>)
    \o (IF p.dropKeys > 0
        THEN <<Alter(stringsTrimRight(AlterTableSQL(p.table)
                                        \o RemoveForeignKeyLines(p.table, 1, p.dropKeys),
                                      {",", "\n"}) \o ";",
                     TRUE, "default")>>
        ELSE <<>>)
    \o (IF p.addKeys > 0
        THEN <<Alter(stringsTrimRight(AlterTableSQL(p.table)
                                        \o AddForeignKeyLines(p.table, 1, p.addKeys),
                                      {",", "\n"}) \o ";",
                     TRUE, "default")>>
        ELSE <<>>)

\* strings.Join(droppedForeignKeys, ",\t\n") for keys i..n
RECURSIVE JoinDroppedForeignKeys(_, _, _)
JoinDroppedForeignKeys(t, i, n) ==
    IF i > n THEN ""
    ELSE "DROP FOREIGN KEY '" \o KeyName(t, i) \o "'"
         \o (IF i < n THEN ",\t\n" ELSE "") \o JoinDroppedForeignKeys(t, i + 1, n)

getDropForeignKeysAlter(t, n) ==
    IF n = 0 THEN ""
    ELSE stringsTrimRight(AlterTableSQL(t) \o JoinDroppedForeignKeys(t, 1, n), {","}) \o ";"

\* a table of the database no entity is registered for
DroppedTableAlters(p) ==
    LET dropForeignKeyAlter == getDropForeignKeysAlter(p.table, p.dropKeys) IN
    (IF dropForeignKeyAlter # "" THEN <<Alter(dropForeignKeyAlter, TRUE, "default")>> ELSE <<>>)
    \o <<Alter("DROP TABLE IF EXISTS 'db'.'" \o p.table \o "';", p.isEmpty, "default")>>

\* the list before it is ordered: the entities' changes, then the dropped tables
RECURSIVE GeneratedAlters(_)
GeneratedAlters(plan) ==
    IF plan = <<>> THEN <<>>
    ELSE (IF Head(plan).inEntities THEN GetSchemaChanges(Head(plan))
          ELSE DroppedTableAlters(Head(plan)))
         \o GeneratedAlters(Tail(plan))

hasDropForeignKey(alter) == IndexFrom(alter.SQL, "DROP FOREIGN KEY", 0) > 0

hasAddForeignKey(alter) == IndexFrom(alter.SQL, "ADD CONSTRAINT", 0) > 0

\* sort.Slice by SQL length: any arrangement in non-decreasing length
\* (sort.Slice is not stable)
SortedByLength(s) ==
    { t \in { [i \in 1..Len(s) |-> s[f[i]]] : f \in Permutations(1..Len(s)) } :
        \A i \in 1..(Len(t) - 1) : Len(t[i].SQL) <= Len(t[i + 1].SQL) }

\* what the planner finds for one table
EntityPlans(t) ==
    { [table |-> t, inEntities |-> TRUE, hasTable |-> TRUE, changes |-> c, dropKeys |-> d,
       addKeys |-> a, isEmpty |-> FALSE] :
        c \in {{}, {"addNullable"}}, d \in 0..MaxKeys, a \in 0..1 }

DroppedPlans(t) ==
    { [table |-> t, inEntities |-> FALSE, hasTable |-> TRUE, changes |-> {}, dropKeys |-> d,
       addKeys |-> 0, isEmpty |-> e] : d \in 0..MaxKeys, e \in BOOLEAN }

\* one table with any diff, empty or not, or missing from the database
SafePlans(t) ==
    { [table |-> t, inEntities |-> TRUE, hasTable |-> h, changes |-> c, dropKeys |-> d,
       addKeys |-> a, isEmpty |-> e] :
        h \in BOOLEAN, c \in SUBSET ChangeKinds, d \in 0..MaxKeys, a \in 0..1,
        e \in BOOLEAN }

SafeInputs == { <<p>> : p \in UNION { SafePlans(t) \cup DroppedPlans(t) : t \in Tables } }

TablePlans == UNION { EntityPlans(t) \cup DroppedPlans(t) : t \in Tables }

\* each table once; the registered entities are walked before the dropped tables
AlterInputs ==
    UNION { { plan \in [1..n -> TablePlans] :
                /\ \A i, j \in 1..n : i < j => plan[i].table # plan[j].table
                /\ \A i, j \in 1..n : i < j => (plan[j].inEntities => plan[i].inEntities) } :
            n \in 0..MaxTables }

NoAlters == [final |-> <<>>, done |-> FALSE]

InitAlters(plan) ==
    /\ alterArgs = plan
    /\ alters = NoAlters
    /\ registry = <<>>
    /\ catalog = {}

\* the lists getAlters may return for a generated list
OrderedAlters(generated) ==
    LET sortedNormal == SelectSeq(generated,
                            LAMBDA a : ~hasDropForeignKey(a) /\ ~hasAddForeignKey(a))
        sortedDropForeign == SelectSeq(generated, hasDropForeignKey)
        sortedAddForeign == SelectSeq(generated, hasAddForeignKey)
    IN { sortedDropForeign \o sorted \o sortedAddForeign :
           sorted \in SortedByLength(sortedNormal) }

\* getAlters, from the generated list on
getAlters ==
    /\ ~alters.done
    /\ \E final \in OrderedAlters(GeneratedAlters(alterArgs)) :
          alters' = [final |-> final, done |-> TRUE]
    /\ UNCHANGED <<otherVars, consumerVars, whereArgs, where, alterArgs, catalogVars, restVars>>

\* ------------------------------------- getSchemaChanges: registry and catalog
\* strings.TrimLeft(s, cutset)
RECURSIVE stringsTrimLeft(_, _)
stringsTrimLeft(s, cutset) ==
    IF s # "" /\ SubSeq(s, 1, 1) \in cutset
    THEN stringsTrimLeft(SubSeq(s, 2, Len(s)), cutset)
    ELSE s

\* strings.ToUpper
UpperChar(c) ==
    LET i == IndexFrom("abcdefghijklmnopqrstuvwxyz", c, 0)
    IN IF i < 0 THEN c ELSE SubSeq("ABCDEFGHIJKLMNOPQRSTUVWXYZ", i + 1, i + 1)

RECURSIVE stringsToUpper(_)
stringsToUpper(s) ==
    IF s = "" THEN "" ELSE UpperChar(SubSeq(s, 1, 1)) \o stringsToUpper(SubSeq(s, 2, Len(s)))

MaxOf(S) == CHOOSE i \in S : \A j \in S : j <= i

\* words := strings.Split(line, " "): words[len(words)-1] and words[len(words)-2]
Spaces(line) == { i \in 1..Len(line) : SubSeq(line, i, i) = " " }

LastWord(line) == SubSeq(line, MaxOf(Spaces(line) \cup {0}) + 1, Len(line))

WordBeforeLast(line) ==
    LET lastSpace == MaxOf(Spaces(line) \cup {0})
        before == MaxOf({ i \in Spaces(line) : i < lastSpace } \cup {0})
    IN SubSeq(line, before + 1, lastSpace - 1)

\* checkStruct: the columns, indexes and foreign keys of the fixture entities
IDColumn == [name |-> "ID", def |-> "'ID' int(10) unsigned NOT NULL"]

AgeColumn == [name |-> "Age", def |-> "'Age' int(10) DEFAULT NULL"]

NameColumn == [name |-> "Name", def |-> "'Name' varchar(255) NOT NULL DEFAULT ''"]

RefColumn == [name |-> "Ref", def |-> "'Ref' int(10) unsigned DEFAULT NULL"]

ColumnLists ==
    { <<>>, <<AgeColumn>>, <<NameColumn>>, <<AgeColumn, NameColumn>>,
      <<NameColumn, AgeColumn>> }

\* idx: the index tag of Age; fk: the reference Ref to the parent entity
TableSchemaOf(t, cols, idx, fk) ==
    [TableName |-> t,
     columns |-> <<IDColumn>> \o cols \o (IF fk # "none" THEN <<RefColumn>> ELSE <<>>),
     indexes |->
        (IF idx # "none"
         THEN {[name |-> "AgeIndex", Unique |-> idx = "unique", Columns |-> <<"Age">>]}
         ELSE {})
        \cup (IF fk # "none"
              THEN {[name |-> "Ref", Unique |-> FALSE, Columns |-> <<"Ref">>]}
              ELSE {}),
     foreignKeys |->
        IF fk # "none"
        THEN {[name |-> "db:" \o t \o ":Ref", Column |-> "Ref", Table |-> "parent",
               ParentDatabase |-> "db", OnDelete |-> fk]}
        ELSE {}]

ParentSchema == TableSchemaOf("parent", <<>>, "none", "none")

Registries ==
    { <<ParentSchema, TableSchemaOf(c[1], c[2], c[3], c[4])>> :
        c \in { x \in Tables \X ColumnLists \X {"none", "index", "unique"}
                        \X {"none", "RESTRICT", "CASCADE"} :
                  x[3] = "none" \/ \E i \in 1..Len(x[2]) : x[2][i] = AgeColumn } }

\* columns[0][1] += " AUTO_INCREMENT"
EntityColumns(schema) ==
    [i \in 1..Len(schema.columns) |->
        IF i = 1 THEN [schema.columns[i] EXCEPT !.def = @ \o " AUTO_INCREMENT"]
        ELSE schema.columns[i]]

RECURSIVE JoinQuoted(_, _)
JoinQuoted(names, i) ==
    IF i > Len(names) THEN ""
    ELSE "'" \o names[i] \o "'" \o (IF i < Len(names) THEN "," ELSE "")
         \o JoinQuoted(names, i + 1)

buildCreateIndexSQL(definition) ==
    "ADD " \o (IF definition.Unique THEN "UNIQUE " ELSE "") \o "INDEX '" \o definition.name
    \o "' (" \o JoinQuoted(definition.Columns, 1) \o ")"

\* What MySQL reports for a table that holds exactly what the schema renders:
\* SHOW CREATE TABLE (as lines), SHOW INDEXES and the KEY_COLUMN_USAGE rows.
\* ON DELETE RESTRICT is the default and may be left out of the listing.
ShowCreateTable(schema, showRestrict) ==
    <<"CREATE TABLE '" \o schema.TableName \o "' (">>
    \o [i \in 1..Len(schema.columns) |-> "  " \o EntityColumns(schema)[i].def \o ","]
    \o <<"  PRIMARY KEY ('ID'),">>
    \o [i \in 1..Cardinality(schema.indexes) |->
          LET ix == SetToSeq(schema.indexes)[i] IN
          "  " \o (IF ix.Unique THEN "UNIQUE " ELSE "") \o "KEY '" \o ix.name \o "' ("
          \o JoinQuoted(ix.Columns, 1) \o "),"]
    \o [i \in 1..Cardinality(schema.foreignKeys) |->
          LET fk == SetToSeq(schema.foreignKeys)[i] IN
          "  CONSTRAINT '" \o fk.name \o "' FOREIGN KEY ('" \o fk.Column \o "') REFERENCES '"
          \o fk.Table \o "' ('ID')"
          \o (IF fk.OnDelete # "RESTRICT" THEN " ON DELETE " \o fk.OnDelete
              ELSE IF showRestrict THEN " ON DELETE RESTRICT" ELSE "")]
    \o <<") ENGINE=InnoDB DEFAULT CHARSET=utf8">>

ReportedTable(schema, showRestrict, isEmpty) ==
    [table |-> schema.TableName,
     createTableDB |-> ShowCreateTable(schema, showRestrict),
     indexRows |->
        {[NonUnique |-> 0, KeyName |-> "PRIMARY", Seq |-> 1, Column |-> "ID"]}
        \cup UNION { { [NonUnique |-> IF ix.Unique THEN 0 ELSE 1, KeyName |-> ix.name,
                        Seq |-> i, Column |-> ix.Columns[i]] : i \in 1..Len(ix.Columns) } :
                     ix \in schema.indexes },
     keyRows |->
        { [ConstraintName |-> fk.name, ColumnName |-> fk.Column,
           ReferencedTableName |-> fk.Table, ReferencedTableSchema |-> fk.ParentDatabase] :
          fk \in schema.foreignKeys },
     isEmpty |-> isEmpty]

AppliedCatalog(reg, showRestrict, isEmpty) ==
    { ReportedTable(reg[i], showRestrict, isEmpty) : i \in 1..Len(reg) }

\* the column lines of SHOW CREATE TABLE: [columnName, line]
tableDBColumns(lines) ==
    LET columnLines == SelectSeq(Tail(lines), LAMBDA l : SubSeq(l, 3, 3) = "'")
        Trimmed(l) == stringsTrimLeft(stringsTrimRight(l, {","}), {" "})
        ColumnName(l) == SubSeq(l, 2, IndexFrom(l, "'", 1))
    IN [i \in 1..Len(columnLines) |->
          [name |-> ColumnName(Trimmed(columnLines[i])), line |-> Trimmed(columnLines[i])]]

\* the rows of SHOW INDEXES by key name
indexesDB(rows) ==
    { [name |-> k,
       Unique |-> \E r \in rows : r.KeyName = k /\ r.Seq = 1 /\ r.NonUnique = 0,
       Columns |-> [i \in 1..Cardinality({ r \in rows : r.KeyName = k }) |->
                       (CHOOSE r \in rows : r.KeyName = k /\ r.Seq = i).Column]] :
      k \in { r.KeyName : r \in rows } }

\* getForeignKeys: ON DELETE is RESTRICT unless the CONSTRAINT line ends in
\* `DELETE <action>`
OnDeleteOf(createTableDB, constraintName) ==
    LET Trimmed(l) == stringsTrimLeft(stringsTrimRight(l, {","}), {" "})
        hits == { i \in 1..Len(createTableDB) :
                    /\ IndexFrom(Trimmed(createTableDB[i]),
                                 "CONSTRAINT '" \o constraintName \o "'", 0) = 0
                    /\ stringsToUpper(WordBeforeLast(Trimmed(createTableDB[i]))) = "DELETE" }
    IN IF hits = {} THEN "RESTRICT"
       ELSE stringsToUpper(LastWord(Trimmed(createTableDB[MaxOf(hits)])))

getForeignKeys(createTableDB, keyRows) ==
    { [name |-> r.ConstraintName, Column |-> r.ColumnName, Table |-> r.ReferencedTableName,
       ParentDatabase |-> r.ReferencedTableSchema,
       OnDelete |-> OnDeleteOf(createTableDB, r.ConstraintName)] : r \in keyRows }

\* the indexes of the database to drop: not PRIMARY, not an index or a
\* foreign key of the entity
DroppedIndexesWithPrimary(dbIndexes, indexes, foreignKeys) ==
    { d \in dbIndexes :
        /\ d.name \notin { ix.name : ix \in indexes }
        /\ d.name \notin { fk.name : fk \in foreignKeys } }

DroppedIndexes(dbIndexes, indexes, foreignKeys) ==
    { d \in dbIndexes :
        /\ d.name \notin { ix.name : ix \in indexes }
        /\ d.name # "PRIMARY"
        /\ d.name \notin { fk.name : fk \in foreignKeys } }

\* getSchemaChanges up to the diff: what it finds for one entity
SchemaDiff(schema, tables) ==
    IF \A tb \in tables : tb.table # schema.TableName
    THEN [table |-> schema.TableName, inEntities |-> TRUE, hasTable |-> FALSE, changes |-> {},
          dropKeys |-> 0, addKeys |-> Cardinality(schema.foreignKeys), isEmpty |-> TRUE]
    ELSE
    LET tb == CHOOSE x \in tables : x.table = schema.TableName
        columns == EntityColumns(schema)
        dbColumns == tableDBColumns(tb.createTableDB)
        dbIndexes == indexesDB(tb.indexRows)
        foreignKeysDB == getForeignKeys(tb.createTableDB, tb.keyRows)
        Differs(key) ==
            (IF key <= Len(dbColumns) THEN dbColumns[key].line ELSE "") # columns[key].def
        hasName(key) == \E z \in 1..Len(dbColumns) : dbColumns[z].name = columns[key].name
        newColumns == { key \in 1..Len(columns) : Differs(key) /\ ~hasName(key) }
        changedColumns == { key \in 1..Len(columns) : Differs(key) /\ hasName(key) }
        droppedColumns ==
            { z \in 1..Len(dbColumns) :
                \A key \in 1..Len(columns) : columns[key].name # dbColumns[z].name }
        newIndexes == { ix \in schema.indexes : \A d \in dbIndexes : d.name # ix.name }
        changedIndexes ==
            { ix \in schema.indexes :
                \E d \in dbIndexes :
                    d.name = ix.name /\ buildCreateIndexSQL(d) # buildCreateIndexSQL(ix) }
        droppedIndexes == DroppedIndexes(dbIndexes, schema.indexes, schema.foreignKeys)
        newForeignKeys ==
            { fk \in schema.foreignKeys : \A d \in foreignKeysDB : d.name # fk.name }
        changedForeignKeys ==
            { fk \in schema.foreignKeys :
                \E d \in foreignKeysDB :
                    d.name = fk.name /\ ForeignKeySQL(d.name, d) # ForeignKeySQL(fk.name, fk) }
        droppedForeignKeys ==
            { d \in foreignKeysDB : \A fk \in schema.foreignKeys : fk.name # d.name }
    IN [table |-> schema.TableName, inEntities |-> TRUE, hasTable |-> TRUE,
        changes |->
            (IF droppedColumns # {} THEN {"dropColumn"} ELSE {})
            \cup (IF \E key \in newColumns : ~Contains(columns[key].def, " NOT NULL")
                  THEN {"addNullable"} ELSE {})
            \cup (IF \E key \in newColumns : Contains(columns[key].def, " NOT NULL")
                  THEN {"addNotNull"} ELSE {})
            \cup (IF changedColumns # {} THEN {"changeColumn"} ELSE {})
            \cup (IF droppedIndexes \cup changedIndexes # {} THEN {"dropIndex"} ELSE {})
            \cup (IF newIndexes \cup changedIndexes # {} THEN {"addIndex"} ELSE {}),
        dropKeys |-> Cardinality(droppedForeignKeys) + Cardinality(changedForeignKeys),
        addKeys |-> Cardinality(newForeignKeys) + Cardinality(changedForeignKeys),
        isEmpty |-> tb.isEmpty]

\* the tables of the database no entity is registered for
DroppedTablePlans(reg, tables) ==
    LET dropped == { tb \in tables : \A i \in 1..Len(reg) : reg[i].TableName # tb.table }
    IN [i \in 1..Cardinality(dropped) |->
          LET tb == SetToSeq(dropped)[i] IN
          [table |-> tb.table, inEntities |-> FALSE, hasTable |-> TRUE, changes |-> {},
           dropKeys |-> Cardinality(tb.keyRows), addKeys |-> 0, isEmpty |-> tb.isEmpty]]

\* Engine.GetAlters against the catalog
GetAlters ==
    /\ ~alters.done
    /\ registry # <<>>
    /\ LET plans == [i \in 1..Len(registry) |-> SchemaDiff(registry[i], catalog)]
                    \o DroppedTablePlans(registry, catalog)
       IN /\ alterArgs' = plans
          /\ \E final \in OrderedAlters(GeneratedAlters(plans)) :
                alters' = [final |-> final, done |-> TRUE]
    /\ UNCHANGED <<otherVars, consumerVars, whereArgs, where, catalogVars, restVars>>

\* the returned list is executed on an empty database
ApplyAlters ==
    /\ alters.done
    /\ catalog = {}
    /\ \A i \in 1..Len(registry) :
          \E j \in 1..Len(alters.final) :
             IndexFrom(alters.final[j].SQL,
                       "CREATE TABLE 'db'.'" \o registry[i].TableName \o "'", 0) = 0
    /\ \E showRestrict \in BOOLEAN : catalog' = AppliedCatalog(registry, showRestrict, TRUE)
    /\ alters' = NoAlters
    /\ alterArgs' = <<>>
    /\ UNCHANGED <<otherVars, consumerVars, whereArgs, where, registry, restVars>>

\* ------------------------------------------- RedisCache.GetSet (part_000)
Clients == 1..MaxClients

RedisNil == "redis.Nil"

\* json.Marshal of the provider's value and json.Unmarshal of the stored string
jsonMarshal(v) == ToString(v)

jsonUnmarshal(str) == CHOOSE v \in 0..(MaxVersion + 1) : ToString(v) = str

NoGetSetRet == [hit |-> FALSE, val |-> 0 - 1, err |-> "-"]

InitGetSet(stored) ==
    /\ gsRedis = stored
    /\ gsSource = 1
    /\ gsPc = [c \in Clients |-> "idle"]
    /\ gsVal = [c \in Clients |-> 0 - 1]
    /\ gsRet = [c \in Clients |-> NoGetSetRet]
    /\ gsProviderCalls = 0

\* val, has, err := r.Get(key): a hit returns the decoded value
GetSetGet(c) ==
    /\ gsPc[c] = "idle"
    /\ \E ok \in BOOLEAN :
         IF ~ok
         THEN /\ gsRet' = [gsRet EXCEPT ![c] = [hit |-> FALSE, val |-> 0 - 1, err |-> "error"]]
              /\ gsPc' = [gsPc EXCEPT ![c] = "done"]
         ELSE IF gsRedis = RedisNil
         THEN /\ gsPc' = [gsPc EXCEPT ![c] = "miss"]
              /\ UNCHANGED gsRet
         ELSE /\ gsRet' = [gsRet EXCEPT ![c] = [hit |-> TRUE, val |-> jsonUnmarshal(gsRedis),
                                               err |-> "nil"]]
              /\ gsPc' = [gsPc EXCEPT ![c] = "done"]
    /\ UNCHANGED <<gsRedis, gsSource, gsVal, gsProviderCalls>>
    /\ UNCHANGED <<otherVars, consumerVars, moreVars, whereArgs, where, alterVars, entityVars, busVars, facadeVars, lockerVars>>

\* userVal := provider()
GetSetProvider(c) ==
    /\ gsPc[c] = "miss"
    /\ gsVal' = [gsVal EXCEPT ![c] = gsSource]
    /\ gsProviderCalls' = gsProviderCalls + 1
    /\ gsPc' = [gsPc EXCEPT ![c] = "provided"]
    /\ UNCHANGED <<gsRedis, gsSource, gsRet>>
    /\ UNCHANGED <<otherVars, consumerVars, moreVars, whereArgs, where, alterVars, entityVars, busVars, facadeVars, lockerVars>>

\* return userVal, r.Set(key, string(encoded), ttlSeconds)
GetSetSet(c) ==
    /\ gsPc[c] = "provided"
    /\ \E ok \in BOOLEAN :
         /\ gsRedis' = IF ok THEN jsonMarshal(gsVal[c]) ELSE gsRedis
         /\ gsRet' = [gsRet EXCEPT ![c] = [hit |-> FALSE, val |-> gsVal[c],
                                          err |-> IF ok THEN "nil" ELSE "error"]]
    /\ gsPc' = [gsPc EXCEPT ![c] = "done"]
    /\ UNCHANGED <<gsSource, gsVal, gsProviderCalls>>
    /\ UNCHANGED <<otherVars, consumerVars, moreVars, whereArgs, where, alterVars, entityVars, busVars, facadeVars, lockerVars>>

\* the data the provider reads changes
SourceChanges ==
    /\ gsSource < MaxVersion
    /\ gsSource' = gsSource + 1
    /\ UNCHANGED <<gsRedis, gsPc, gsVal, gsRet, gsProviderCalls>>
    /\ UNCHANGED <<otherVars, consumerVars, moreVars, whereArgs, where, alterVars, entityVars, busVars, facadeVars, lockerVars>>

InitMore == InitFlusher(1, FALSE) /\ InitPublish /\ InitMarkDirty

InitRest == InitGetSet(RedisNil) /\ InitEntity({}) /\ InitBus /\ InitFacades /\ InitLocker /\ InitMore

\* ------------------------------------------- rabbitMQReceiver (part_002)
PrefetchCounts == (0 - 1)..MaxPrefetch

\* max := PrefetchCount; if max <= 0 { max = 1 }
ConsumeMax(prefetch) == IF prefetch <= 0 THEN 1 ELSE prefetch

\* last.Ack(true)
ConsumeAckSingle(tag, ok) == [tag |-> tag, multiple |-> FALSE, ok |-> ok]

ConsumeAck(tag, ok) == [tag |-> tag, multiple |-> TRUE, ok |-> ok]

\* if r.disableLoop { return nil } after the Ack
NeverReturns(disabled) == FALSE

ReturnsAfterBatch(disabled) == disabled

\* items = nil after the handler call
ItemsKept(batch) == batch

ItemsAfterHandler(batch) == <<>>

\* The broker has a delivery for this consumer: a message not yet delivered,
\* and fewer unacknowledged deliveries than the channel's Qos (0: no limit).
DeliveryReady ==
    /\ received < published
    /\ (prefetchCount <= 0 \/ received - ackedUpTo < prefetchCount)

InitConsumer(prefetch) ==
    /\ prefetchCount = prefetch
    /\ disableLoop = FALSE
    /\ published = 0
    /\ received = 0
    /\ ackedUpTo = 0
    /\ cpc = "new"
    /\ max = 0
    /\ counter = 0
    /\ timeOut = FALSE
    /\ last = 0
    /\ items = <<>>
    /\ batches = <<>>
    /\ acks = <<>>
    /\ consumeRet = "-"
    /\ queuedAtStart = 0
    /\ earlyTimeout = FALSE
    /\ batchTimedOut = FALSE

\* A publisher puts one more message on the queue.
Publish ==
    /\ published < MaxMsgs
    /\ published' = published + 1
    /\ UNCHANGED <<otherVars, pureVars, prefetchCount, disableLoop, received, ackedUpTo, cpc, max,
                   counter, timeOut, last, items, batches, acks, consumeRet,
                   queuedAtStart, earlyTimeout, batchTimedOut>>

\* receiver.DisableLoop(), called while Consume is not running
DisableLoop ==
    /\ cpc # "top" /\ cpc # "select"
    /\ ~disableLoop
    /\ disableLoop' = TRUE
    /\ UNCHANGED <<otherVars, pureVars, prefetchCount, published, received, ackedUpTo, cpc, max,
                   counter, timeOut, last, items, batches, acks, consumeRet,
                   queuedAtStart, earlyTimeout, batchTimedOut>>

\* Consume up to the loop: r.consume() and the locals.
ConsumeStart ==
    /\ cpc = "new"
    /\ \E consumeOk \in BOOLEAN :
         /\ cpc' = IF consumeOk THEN "top" ELSE "done"
         /\ consumeRet' = IF consumeOk THEN "-" ELSE "error"
    /\ max' = ConsumeMax(prefetchCount)
    /\ counter' = 0
    /\ timeOut' = FALSE
    /\ items' = <<>>
    /\ queuedAtStart' = published
    /\ batchTimedOut' = FALSE
    /\ UNCHANGED <<otherVars, pureVars, prefetchCount, disableLoop, published, received, ackedUpTo,
                   last, batches, acks, earlyTimeout>>

\* The head of one loop iteration: the handler call with its Ack, or the
\* return of a disabled loop whose timer fired, or nothing.
ConsumeLoopTop ==
    /\ cpc = "top"
    /\ IF counter > 0 /\ (timeOut \/ counter = max)
       THEN \E handlerOk \in BOOLEAN, ackOk \in BOOLEAN :
              /\ batches' = Append(batches, [batch |-> items, ok |-> handlerOk,
                                              timedOut |-> batchTimedOut])
              /\ items' = ItemsAfterHandler(items)
              /\ IF ~handlerOk
                 THEN /\ cpc' = "done" /\ consumeRet' = "error"
                      /\ UNCHANGED <<acks, ackedUpTo, counter, timeOut, batchTimedOut>>
                 ELSE /\ acks' = Append(acks, ConsumeAck(last, ackOk))
                      /\ IF ~ackOk
                         THEN /\ cpc' = "done" /\ consumeRet' = "error"
                              /\ UNCHANGED <<ackedUpTo, counter, timeOut, batchTimedOut>>
                         ELSE /\ ackedUpTo' = last
                              /\ counter' = 0
                              /\ timeOut' = FALSE
                              /\ batchTimedOut' = FALSE
                              /\ cpc' = IF ReturnsAfterBatch(disableLoop) THEN "done" ELSE "select"
                              /\ consumeRet' = IF ReturnsAfterBatch(disableLoop) THEN "nil"
                                                ELSE consumeRet
       ELSE /\ cpc' = IF timeOut /\ disableLoop THEN "done" ELSE "select"
            /\ consumeRet' = IF timeOut /\ disableLoop THEN "nil" ELSE consumeRet
            /\ UNCHANGED <<items, batches, acks, ackedUpTo, counter, timeOut, batchTimedOut>>
    /\ UNCHANGED <<otherVars, pureVars, prefetchCount, disableLoop, published, received, max, last,
                   queuedAtStart, earlyTimeout>>

\* select, case item := <-delivery
ConsumeReceive ==
    /\ cpc = "select"
    /\ DeliveryReady
    /\ received' = received + 1
    /\ last' = received + 1
    /\ items' = Append(items, received + 1)
    /\ counter' = counter + 1
    /\ cpc' = "top"
    /\ UNCHANGED <<otherVars, pureVars, prefetchCount, disableLoop, published, ackedUpTo, max,
                   timeOut, batches, acks, consumeRet, queuedAtStart, earlyTimeout,
                   batchTimedOut>>

\* select, case <-time.After(r.maxLoopDuration)
ConsumeTimeout ==
    /\ cpc = "select"
    /\ timeOut' = TRUE
    /\ earlyTimeout' = (earlyTimeout \/ DeliveryReady)
    /\ batchTimedOut' = (batchTimedOut \/ counter > 0)
    /\ cpc' = "top"
    /\ UNCHANGED <<otherVars, pureVars, prefetchCount, disableLoop, published, received, ackedUpTo,
                   max, counter, last, items, batches, acks, consumeRet, queuedAtStart>>

\* ---------------------------------------------------------- specifications
StatementOps == {"Exec", "Query"}

NextDB ==
    \/ \E p \in Pools : Begin(p)
    \/ \E p \in Pools : Commit(p)
    \/ \E p \in Pools : Rollback(p)
    \/ \E p \in Pools, op \in StatementOps : Statement(op, p)
    \/ \E p \in Pools : QueryRow(p)
    \/ NestedBegin
    \/ NestedCommitCall
    \/ NestedRollbackCall
    \/ \E op \in StatementOps \cup {"QueryRow"} : NestedStatement(op)
    \/ \E e \in Entities, deleted \in BOOLEAN : NestedQueue(e, deleted)

vars == <<dbVars, nestedDB, engineVars, calls, ret, window, consumerVars, cacheVars, pureVars>>

InitCache ==
    /\ dirty = [e \in CacheEntities |-> FALSE]
    /\ cacheArgs = <<>>
    /\ dirtyBefore = [e \in CacheEntities |-> FALSE]

InitAll ==
    /\ InitDB /\ InitEngine /\ InitConsumer(1) /\ InitCache /\ InitRest
    /\ InitWhere([query |-> "", parameters |-> <<>>, kinds |-> <<>>])
    /\ InitAlters(<<>>)

InitConsume ==
    /\ InitDB /\ InitEngine /\ InitCache /\ InitRest
    /\ InitWhere([query |-> "", parameters |-> <<>>, kinds |-> <<>>])
    /\ InitAlters(<<>>)
    /\ \E prefetch \in PrefetchCounts : InitConsumer(prefetch)

NextConsume ==
    \/ Publish
    \/ DisableLoop
    \/ ConsumeStart
    \/ ConsumeLoopTop
    \/ ConsumeReceive
    \/ ConsumeTimeout

Next ==
    \/ \E e \in Entities : Track(e)
    \/ ClearTrackedEntities
    \/ \E op \in FlushOps : FlushStart(op)
    \/ FlushBegin
    \/ FlushRun
    \/ FlushCommit
    \/ FlushDefer
    \/ \E p \in Pools : Begin(p)
    \/ \E p \in Pools : Commit(p)
    \/ \E p \in Pools : Rollback(p)

\* The engine: tracking, the flush variants, and calls on the pools between
\* flushes.
Spec == InitAll /\ [][Next]_vars

\* The engine's flushes under a lock.
NextLock ==
    \/ \E e \in Entities : Track(e)
    \/ ClearTrackedEntities
    \/ \E op \in FlushWithLockOps : FlushWithLock(op)
    \/ FlushBegin
    \/ FlushRun
    \/ FlushCommit
    \/ FlushDefer
    \/ FlushRelease

SpecLock == InitAll /\ [][NextLock]_vars

NextLockTTL == NextLock \/ LockExpires

\* flushWithLock with a lock whose TTL can run out before the release.
SpecLockTTL == InitAll /\ [][NextLockTTL]_vars

\* Argument lists of FlushInCache
RECURSIVE SeqsUpTo(_, _)
SeqsUpTo(S, n) ==
    IF n = 0 THEN {<<>>}
    ELSE SeqsUpTo(S, n - 1) \cup {Append(q, x) : q \in SeqsUpTo(S, n - 1), x \in S}

NextCache ==
    \/ \E e \in CacheEntities : Modify(e)
    \/ \E args \in SeqsUpTo(CacheEntities, MaxArgs) : FlushInCache(args)

\* FlushInCache over entities that are modified between the calls.
SpecCache == InitAll /\ [][NextCache]_vars

\* NewWhere applied to every template and parameter list within the bounds.
InitWhereInputs ==
    /\ InitDB /\ InitEngine /\ InitConsumer(1) /\ InitCache /\ InitRest
    /\ \E args \in WhereInputs : InitWhere(args)
    /\ InitAlters(<<>>)

NextWhere == NewWhere

SpecWhere == InitWhereInputs /\ [][NextWhere]_vars

InitAlterInputs ==
    /\ InitDB /\ InitEngine /\ InitConsumer(1) /\ InitCache /\ InitRest
    /\ InitWhere([query |-> "", parameters |-> <<>>, kinds |-> <<>>])
    /\ \E plan \in AlterInputs : InitAlters(plan)

NextAlters == getAlters

InitSafeInputs ==
    /\ InitDB /\ InitEngine /\ InitConsumer(1) /\ InitCache /\ InitRest
    /\ InitWhere([query |-> "", parameters |-> <<>>, kinds |-> <<>>])
    /\ \E plan \in SafeInputs : InitAlters(plan)

InitCatalogInputs ==
    /\ InitDB /\ InitEngine /\ InitConsumer(1) /\ InitCache /\ InitRest
    /\ InitWhere([query |-> "", parameters |-> <<>>, kinds |-> <<>>])
    /\ alterArgs = <<>>
    /\ alters = NoAlters
    /\ registry \in Registries
    /\ catalog \in {{}} \cup { AppliedCatalog(r, showRestrict, isEmpty) :
                                 r \in Registries, showRestrict \in BOOLEAN,
                                 isEmpty \in BOOLEAN }

NextCatalog == GetAlters \/ ApplyAlters

\* The planner against a database that holds another registry's tables, or
\* none, and again after its list was executed on the empty database.
SpecCatalog == InitCatalogInputs /\ [][NextCatalog]_vars

InitGetSetInputs ==
    /\ InitDB /\ InitEngine /\ InitConsumer(1) /\ InitCache
    /\ InitWhere([query |-> "", parameters |-> <<>>, kinds |-> <<>>])
    /\ InitAlters(<<>>)
    /\ \E stored \in {RedisNil, jsonMarshal(0)} : InitGetSet(stored)
    /\ InitEntity({}) /\ InitBus /\ InitFacades /\ InitLocker /\ InitMore

NextGetSet ==
    \/ \E c \in Clients : GetSetGet(c) \/ GetSetProvider(c) \/ GetSetSet(c)
    \/ SourceChanges

InitEntityInputs ==
    /\ InitDB /\ InitEngine /\ InitConsumer(1) /\ InitCache
    /\ InitWhere([query |-> "", parameters |-> <<>>, kinds |-> <<>>])
    /\ InitAlters(<<>>)
    /\ InitGetSet(RedisNil)
    /\ \E loadedSet \in SUBSET BoundEntities : InitEntity(loadedSet)
    /\ InitBus /\ InitFacades /\ InitLocker /\ InitMore

NextEntity ==
    \/ \E e \in BoundEntities : Track(e) \/ MarkToDelete(e) \/ ForceMarkToDelete(e)
    \/ ClearTrackedEntities
    \/ Flush

\* New and loaded entities tracked, marked for delete, cleared and flushed.
SpecEntity == InitEntityInputs /\ [][NextEntity]_vars

NextDirty ==
    \/ \E e \in BoundEntities : Track(e) \/ MarkToDelete(e) \/ ForceMarkToDelete(e)
    \/ \E e \in BoundEntities : SetField(e) \/ IsDirty(e)
    \/ Flush

\* New and loaded entities changed, marked for delete, flushed and asked
\* whether they are dirty.
SpecDirty == InitEntityInputs /\ [][NextDirty]_vars

NextBus ==
    \/ \E side \in Sides, force \in BOOLEAN : GetClient(side, force)
    \/ \E side \in Sides : ConnectionClosed(side) \/ KeepConnection(side)
    \/ BrokerLost
    \/ BrokerBack

\* The two connections of the bus client, closed by the network and dialled
\* again while the broker goes away and comes back; a goroutine that received
\* its close notification runs.
SpecBusFair ==
    /\ InitAll /\ [][NextBus]_vars
    /\ \A side \in Sides : WF_vars(KeepConnection(side))

NextFacades ==
    \E name \in ChannelNames :
        GetRabbitMQQueue(name) \/ GetRabbitMQDelayedQueue(name) \/ GetRabbitMQRouter(name)

\* The three accessors called in any order on registered and unregistered
\* names.
SpecFacades == InitAll /\ [][NextFacades]_vars

NextLocker ==
    \/ \E name \in LockNames, ttl \in {0, 10} : Obtain(name, ttl)
    \/ \E h \in 1..MaxLocks : Release(h)
    \/ \E name \in LockNames : Expire(name)

\* Locks of two names obtained, released (again) and expiring in any order.
SpecLocker == InitAll /\ [][NextLocker]_vars

InitFlusherInputs ==
    /\ InitDB /\ InitEngine /\ InitConsumer(1) /\ InitCache
    /\ InitWhere([query |-> "", parameters |-> <<>>, kinds |-> <<>>])
    /\ InitAlters(<<>>)
    /\ InitGetSet(RedisNil) /\ InitEntity({}) /\ InitBus /\ InitFacades /\ InitLocker
    /\ InitPublish /\ InitMarkDirty
    /\ \E limit \in 0..MaxLimit, autoFlush \in BOOLEAN : InitFlusher(limit, autoFlush)

NextFlusher ==
    \/ \E args \in FlusherArgs : RegisterEntity(args)
    \/ FlushFlusher

\* A Flusher of any limit, with and without autoFlush.
SpecFlusher == InitFlusherInputs /\ [][NextFlusher]_vars

NextPublish == \E routingKey \in RoutingKeys, body \in Bodies : QueuePublish(routingKey, body)

\* Messages published on one rabbitMQChannel whose channel and broker fail
\* at any point.
SpecPublish == InitAll /\ [][NextPublish]_vars

NextMarkDirty ==
    \E entity \in DirtyEntities, queueCode \in QueueCodes, ids \in DirtyIds :
        MarkDirty(entity, queueCode, ids)

\* Entities marked dirty by hand on registered and unknown dirty queues.
SpecMarkDirty == InitAll /\ [][NextMarkDirty]_vars

\* Concurrent GetSet calls on one key of one shared cache.
SpecGetSet == InitGetSetInputs /\ [][NextGetSet]_vars

\* The planner's safety classification over every diff of one table.
SpecSafe == InitSafeInputs /\ [][NextAlters]_vars

\* The migration planner's ordering over what it finds per table.
SpecAlters == InitAlterInputs /\ [][NextAlters]_vars

\* The relational client alone: both handle variants under arbitrary calls.
SpecDB == InitAll /\ [][NextDB]_vars

\* The batched consumer of one queue, with publishers.
SpecConsume == InitConsume /\ [][NextConsume]_vars

\* The same with a loop that keeps running and a timer that fires.
SpecConsumeFair ==
    SpecConsume /\ WF_vars(ConsumeLoopTop) /\ WF_vars(ConsumeTimeout)

\* ------------------------------------------------------------ properties
HandleOf(h) == IF h = "nested" THEN nestedDB.transaction ELSE tx[h]

\* C1: in a transactional flush no queued cache mutation is applied before
\* the COMMIT of the pool whose transaction produced it has returned success.
C1_PostCommitGating ==
    (ret.op = "FlushInTransaction") =>
        \A i \in 1..Len(calls) :
            calls[i].k \in {"MSET", "DEL"} =>
                \E j \in 1..(i - 1) : calls[j] = Call("COMMIT", SchemaPool(calls[i].arg), "ok")

\* C3: when a transactional flush has exited, no pool on which the flush
\* opened a transaction is left with an open transaction.
C3_NoDanglingTransaction ==
    (pc = "idle" /\ ret.op = "FlushInTransaction") =>
        \A p \in Pools :
            (\E i \in 1..Len(calls) : calls[i] = Call("BEGIN", p, "ok")) => tx[p] = NoTx

C2_RollbackEmptiesQueues ==
    (ret.op = "Rollback" /\ ret.wasOpen /\ ret.err = "nil") =>
        IF ret.db = "nested"
        THEN /\ nestedDB.afterCommitLocalCacheSets = {}
             /\ nestedDB.afterCommitLocalCacheDeletes = {}
             /\ nestedDB.afterCommitRedisCacheDeletes = {}
        ELSE /\ afterCommitLocalCacheSets = {}
             /\ afterCommitRedisCacheDeletes = {}

C6_CommitRollbackClear ==
    (ret.op \in {"Commit", "Rollback"} /\ ret.wasOpen) => HandleOf(ret.db) = NoTx

\* C7: a statement issued between a successful Begin and the Commit/Rollback
\* that reaches the driver runs on the transaction handle; a statement issued
\* while the handle is nil runs on the connection pool.
C7_Routing ==
    (ret.op \in {"Exec", "Query", "QueryRow"}) =>
        /\ Len(calls) = 1
        /\ window[ret.db] => calls[1].arg = "tx"
        /\ HandleOf(ret.db) = NoTx => calls[1].arg = "db"

C7_Witness ==
    /\ ret.op = "Query" /\ ret.db \in Pools
    /\ window[ret.db]
    /\ calls = <<Call("Query", ret.db, "tx")>>

\* C8: DB.QueryRow returns found=false without raising exactly when the scan
\* failed with "no rows in result set", found=true when the scan succeeded,
\* and raises every other scan failure.
C8_QueryRow ==
    (ret.op = "QueryRow" /\ ret.db \in Pools) =>
        /\ (ret.found = FALSE /\ ret.err = "nil") <=> ret.scan = NoRows
        /\ (ret.found = TRUE /\ ret.err = "nil") <=> ret.scan = ""
        /\ ret.err = "panic" <=> ret.scan \notin {"", NoRows}

C8_Witness ==
    ret.op = "QueryRow" /\ ret.db \in Pools /\ ret.scan = NoRows /\ ~ret.found /\ ret.err = "nil"


\* ------------------------------------------------------- consumer properties
OkBatches == SelectSeq(batches, LAMBDA b : b.ok)

RECURSIVE Flatten(_)
Flatten(bs) == IF bs = <<>> THEN <<>> ELSE Head(bs).batch \o Flatten(Tail(bs))

BatchSizes == [i \in 1..Len(batches) |-> Len(batches[i].batch)]

\* C9: every handler call that returned nil has exactly one Ack, on the last
\* delivery of its batch and with multiple=true, so the Ack calls are the
\* successful handler calls in order; a handler call that returned an error
\* has no Ack, is the last call, and Consume returned the error.
C9_OneAckPerHandledBatch ==
    /\ Len(acks) = Len(OkBatches)
    /\ \A i \in 1..Len(acks) :
          /\ acks[i].multiple
          /\ acks[i].tag = OkBatches[i].batch[Len(OkBatches[i].batch)]
    /\ \A i \in 1..Len(batches) :
          ~batches[i].ok => (i = Len(batches) /\ cpc = "done" /\ consumeRet = "error")

C9_Witness ==
    /\ Len(batches) = 3 /\ Len(acks) = 2
    /\ batches[1].ok /\ Len(batches[1].batch) = 2
    /\ ~batches[3].ok /\ consumeRet = "error"

\* C10: with PrefetchCount p >= 1 every batch holds between 1 and p bodies;
\* the batches, followed by the bodies not yet handed over, are the delivered
\* sequence in delivery order; five messages queued before Consume with p = 3,
\* all handled and acknowledged with no failure and no timer firing while a
\* delivery was ready, came as batches of 3 and 2 with two acks.
C10_BatchesAreTheDeliveries ==
    /\ prefetchCount >= 1 =>
          \A i \in 1..Len(batches) :
              Len(batches[i].batch) >= 1 /\ Len(batches[i].batch) <= prefetchCount
    /\ cpc \in {"top", "select"} =>
          Flatten(batches) \o items = [i \in 1..received |-> i]
    /\ cpc = "done" =>
          Flatten(batches) = [i \in 1..received |-> i]
    /\ ( /\ prefetchCount = 3 /\ queuedAtStart = 5 /\ published = 5
         /\ ackedUpTo = 5 /\ ~earlyTimeout
         /\ Len(OkBatches) = Len(batches) )
       => (BatchSizes = <<3, 2>> /\ Len(acks) = 2)

C10_Witness ==
    /\ prefetchCount = 3 /\ queuedAtStart = 5 /\ published = 5
    /\ ackedUpTo = 5 /\ ~earlyTimeout
    /\ BatchSizes = <<3, 2>> /\ Len(acks) = 2
    /\ acks[1].multiple /\ acks[2].multiple

\* C11: a batch with fewer than max bodies is handed to the handler only
\* when the timer fired after the first message of that batch was received.
C11_ShortBatchOnlyAfterOwnTimeout ==
    \A i \in 1..Len(batches) :
        Len(batches[i].batch) < ConsumeMax(prefetchCount) => batches[i].timedOut

\* C12: with disableLoop set a handler call is the first one, a return of
\* nil follows the first handled and acked batch or a timeout with no message
\* pending, and a running Consume returns.
C12_DisabledLoopOnce ==
    (disableLoop /\ Len(batches') > Len(batches)) => Len(batches) = 0

C12_DisabledLoopReturn ==
    (disableLoop /\ cpc \in {"top", "select"} /\ cpc' = "done" /\ consumeRet' = "nil") =>
        \/ Len(batches') = 1 /\ batches'[1].ok /\ Len(acks') = 1 /\ acks'[1].ok
        \/ Len(batches') = 0 /\ timeOut /\ counter = 0

C12_DisableLoopTerminates ==
    /\ [][C12_DisabledLoopOnce /\ C12_DisabledLoopReturn]_vars
    /\ (disableLoop /\ cpc \in {"top", "select"}) ~> (cpc = "done")

C12_Witness ==
    /\ disableLoop /\ cpc = "done" /\ consumeRet = "nil"
    /\ Len(batches) = 1 /\ Len(batches[1].batch) = 2 /\ Len(acks) = 1
    /\ received < published

\* C13: a lock that flushWithLock obtained is held while the flush runs and
\* released when it has returned, on every exit (nil, error, panic); the
\* release is the last call, so every statement lies between obtain and release.
C13_LockReleasedOnEveryExit ==
    (ret.op \in FlushWithLockOps /\ calls # <<>> /\ calls[1] = Call("OBTAIN", "locker", "ok")) =>
        /\ pc # "idle" => lock = "held"
        /\ pc = "idle" => (lock = "none" /\ calls[Len(calls)].k = "RELEASE")
        /\ \A i \in 1..Len(calls) :
              /\ calls[i].k = "RELEASE" => (i = Len(calls) /\ pc = "idle")
              /\ calls[i].k = "OBTAIN" => i = 1

C13_Witness ==
    /\ ret.op = "FlushInTransactionWithLock" /\ ret.err = "panic" /\ pc = "idle"
    /\ calls[1] = Call("OBTAIN", "locker", "ok")
    /\ calls[Len(calls)].k = "RELEASE"
    /\ \E i \in 1..Len(calls) : calls[i].k = "Exec"

\* C14: when Obtain times out or fails, flushWithLock returns an error, no
\* transaction is begun, no statement is executed and the tracked list is
\* the one before the call.
C14_NoLockNoFlush ==
    (ret.op \in FlushWithLockOps /\ calls # <<>> /\ calls[1].k = "OBTAIN" /\ calls[1].arg # "ok") =>
        /\ ret.err = "error"
        /\ Len(calls) = 1
        /\ pc = "idle" /\ lock = "none"
        /\ trackedEntities = trackedBefore

C14_Witness ==
    /\ ret.op = "FlushInTransactionWithLock"
    /\ calls = <<Call("OBTAIN", "locker", "timeout")>>
    /\ Len(trackedEntities) = 2

InList(n) == IF n = 0 THEN "" ELSE "?" \o stringsRepeat(",?", n - 1)

CountPlaceholders(q) == Cardinality({ i \in 1..Len(q) : SubSeq(q, i, i) = "?" })

RECURSIVE FlatParameters(_)
FlatParameters(ps) == IF ps = <<>> THEN <<>> ELSE Head(ps).val \o FlatParameters(Tail(ps))

RECURSIVE ExpandedTemplate(_, _, _)
ExpandedTemplate(kinds, ps, n) ==
    LET cond == Columns[n] \o (IF kinds[n] THEN " IN (" \o InList(Len(ps[n].val)) \o ")"
                               ELSE "=?")
    IN IF n = 1 THEN cond ELSE ExpandedTemplate(kinds, ps, n - 1) \o " AND " \o cond

\* C16: NewWhere("a=? AND b IN ?", x, xs) returns the query with `IN ?`
\* replaced by an IN list of len(xs) placeholders and the parameters x, xs...
C16_WhereScalarThenCollection ==
    ( /\ where.done
      /\ whereArgs.query = "a=? AND b IN ?"
      /\ Len(whereArgs.parameters) = 2
      /\ whereArgs.parameters[1].kind = "int"
      /\ whereArgs.parameters[2].kind = "slice" )
    => /\ where.query = "a=? AND b IN (" \o InList(Len(whereArgs.parameters[2].val)) \o ")"
       /\ where.parameters = whereArgs.parameters[1].val \o whereArgs.parameters[2].val

\* C17: for a template with a collection for every `IN ?` and a scalar for
\* every other `?`, NewWhere replaces each `IN ?` by the IN list of its
\* collection: no `IN ?` is left and the query has as many placeholders as
\* the final parameter list has elements.
C17_WherePlaceholdersMatchParameters ==
    ( /\ where.done
      /\ \A i \in 1..Len(whereArgs.parameters) :
            whereArgs.kinds[i] <=> whereArgs.parameters[i].kind = "slice" )
    => /\ where.parameters = FlatParameters(whereArgs.parameters)
       /\ where.query = ExpandedTemplate(whereArgs.kinds, whereArgs.parameters,
                                         Len(whereArgs.parameters))
       /\ CountPlaceholders(where.query) = Len(where.parameters)
       /\ IndexFrom(where.query, "IN ?", 0) < 0

\* ------------------------------------------------ post-commit properties
\* C18: when a shared-cache delete of Commit's post-commit fan-out fails, the
\* failure is reported to the caller, the committed relational state is not
\* rolled back, and a repair message is enqueued on the invalidation bus.
C18_FanOutFailureReportedAndRepaired ==
    ( /\ ret.op = "Commit"
      /\ \E i \in 1..Len(calls) : calls[i].k = "DEL" /\ calls[i].arg = "fail" )
    => /\ ret.err # "nil"
       /\ \A i \in 1..Len(calls) : calls[i].k # "ROLLBACK"
       /\ \E i \in 1..Len(calls) : calls[i].k = "PUBLISH"

\* C19: a Commit that applies the post-commit queues applies every queued
\* local-cache set before any queued shared-cache delete.
C19_LocalSetsBeforeSharedDeletes ==
    ret.op \in {"Commit", "FlushInTransaction"}
    => \A i, j \in 1..Len(calls) :
          (calls[i].k = "MSET" /\ calls[j].k = "DEL") => i < j

C19_Witness ==
    /\ ret.op = "Commit" /\ ret.err = "nil"
    /\ \E i, j, k \in 1..Len(calls) :
          /\ calls[i] = Call("COMMIT", "nested", "ok")
          /\ calls[j].k = "MSET" /\ calls[j].on = "local"
          /\ calls[k].k = "DEL" /\ calls[k].on = "redis"
          /\ i < j /\ j < k

\* ---------------------------------------------------- planner properties
\* C20: the list returned by GetAlters has every DROP FOREIGN KEY statement
\* first, shortest SQL first, then every other statement in non-decreasing
\* SQL length, then every ADD CONSTRAINT statement; every DROP FOREIGN KEY
\* precedes the DROP TABLE of its table.
C20_AltersOrdered ==
    alters.done =>
      LET f == alters.final
          drop(i) == Contains(f[i].SQL, "DROP FOREIGN KEY")
          add(i) == Contains(f[i].SQL, "ADD CONSTRAINT")
      IN \A i, j \in 1..Len(f) :
            i < j =>
              /\ drop(j) => drop(i)
              /\ add(i) => add(j)
              /\ (drop(i) /\ drop(j)) => Len(f[i].SQL) <= Len(f[j].SQL)
              /\ (~drop(i) /\ ~add(i) /\ ~drop(j) /\ ~add(j))
                    => Len(f[i].SQL) <= Len(f[j].SQL)
              /\ \A t \in Tables :
                    ( /\ drop(j) /\ Contains(f[j].SQL, "'db'.'" \o t \o "'")
                      /\ f[i].SQL = "DROP TABLE IF EXISTS 'db'.'" \o t \o "';" ) => FALSE

\* what an emitted statement does, read off its SQL
DropsColumn(a) == Contains(a.SQL, "DROP COLUMN")

ChangesColumn(a) == Contains(a.SQL, "CHANGE COLUMN")

DropsTable(a) == Contains(a.SQL, "DROP TABLE")

OnlyAddsNullableIndexesKeys(a) ==
    /\ ~Contains(a.SQL, "DROP ") /\ ~ChangesColumn(a) /\ ~Contains(a.SQL, "CREATE TABLE")
    /\ ~Contains(a.SQL, " NOT NULL")

AgainstEmptyTable == alterArgs[1].isEmpty \/ ~alterArgs[1].hasTable

\* C21 as stated: an emitted Alter has Safe=true iff it adds only nullable
\* columns, only adds indexes or foreign keys, or is issued against an empty
\* table; dropping a column of a non-empty table or dropping a non-empty
\* table has Safe=false.
C21_SafeIffOnlyAddsOrEmpty ==
    (alters.done /\ Len(alterArgs) = 1) =>
      \A i \in 1..Len(alters.final) :
         LET a == alters.final[i] IN
         /\ a.Safe <=> (OnlyAddsNullableIndexesKeys(a) \/ AgainstEmptyTable)
         /\ ((DropsColumn(a) \/ DropsTable(a)) /\ ~AgainstEmptyTable) => ~a.Safe

\* C21 as amended: an emitted Alter has Safe=false iff it drops or changes a
\* column of a non-empty table or drops a non-empty table.
C21_UnsafeIffDestructiveOnNonEmpty ==
    (alters.done /\ Len(alterArgs) = 1) =>
      \A i \in 1..Len(alters.final) :
         LET a == alters.final[i] IN
         ~a.Safe <=> ((DropsColumn(a) \/ ChangesColumn(a) \/ DropsTable(a))
                        /\ ~AgainstEmptyTable)

C21_Witness ==
    /\ alters.done /\ Len(alterArgs) = 1
    /\ alterArgs[1].changes = {"dropColumn", "addIndex"} /\ ~alterArgs[1].isEmpty
    /\ alterArgs[1].dropKeys = 1
    /\ Len(alters.final) = 2
    /\ hasDropForeignKey(alters.final[1]) /\ alters.final[1].Safe
    /\ DropsColumn(alters.final[2]) /\ ~alters.final[2].Safe

\* the database holds exactly what the registry renders
CatalogInSync ==
    \E showRestrict \in BOOLEAN, isEmpty \in BOOLEAN :
        catalog = AppliedCatalog(registry, showRestrict, isEmpty)

\* C22: when the database is the result of executing the planner's list on an
\* empty database (every registered table with its rendered columns, indexes
\* and foreign keys, no other table), GetAlters returns the empty list.
C22_PlannerIdempotent ==
    (alters.done /\ registry # <<>> /\ CatalogInSync) => alters.final = <<>>

C22_Witness ==
    /\ alters.done /\ alters.final = <<>>
    /\ registry = <<ParentSchema,
                    TableSchemaOf("a", <<NameColumn, AgeColumn>>, "unique", "CASCADE")>>
    /\ catalog = AppliedCatalog(registry, FALSE, TRUE)
    /\ alterArgs[2] = [table |-> "a", inEntities |-> TRUE, hasTable |-> TRUE, changes |-> {},
                       dropKeys |-> 0, addKeys |-> 0, isEmpty |-> TRUE]

\* ------------------------------------------------------ GetSet properties
\* C23: GetSet is atomic: a hit returns the stored value without calling the
\* provider; concurrent calls on one key call the provider at most once in
\* total and all return the same value.
C23_GetSetAtomic ==
    /\ \A c \in Clients : gsRet[c].hit => gsVal[c] = 0 - 1
    /\ (\A c \in Clients : gsPc[c] = "done" /\ gsRet[c].err = "nil")
          => /\ gsProviderCalls <= 1
             /\ \A c, d \in Clients : gsRet[c].val = gsRet[d].val

\* ------------------------------------------------------ entity properties
\* C24: MarkToDelete on an entity whose schema has the FakeDelete column sets
\* its FakeDelete field to true and does not set the marked-for-delete flag;
\* MarkToDelete on any other entity, and ForceMarkToDelete on any entity, sets
\* the flag; in all cases the entity ends up tracked by the engine.
C24_MarkToDelete ==
    [][\A e \in BoundEntities :
          /\ (MarkToDelete(e) /\ HasFakeDelete(e)) =>
                /\ fields'[e]["FakeDelete"] = TRUE
                /\ attributes'[e].delete = attributes[e].delete
          /\ (MarkToDelete(e) /\ ~HasFakeDelete(e)) => attributes'[e].delete
          /\ ForceMarkToDelete(e) => attributes'[e].delete
          /\ (MarkToDelete(e) \/ ForceMarkToDelete(e)) =>
                \E i \in 1..Len(trackedEntities') : trackedEntities'[i] = e]_vars

C24_Witness ==
    /\ ret.op = "MarkToDelete" /\ ret.db = "User:1"
    /\ fields["User:1"]["FakeDelete"] /\ ~attributes["User:1"].delete
    /\ attributes["Tmp:1"].delete
    /\ trackedEntities = <<"Tmp:1", "User:1">>

\* Some field of the entity differs from its dBData snapshot.
FieldDiffers(e) ==
    \E c \in FieldNames(e) : c \notin DOMAIN dBData[e] \/ fields[e][c] # dBData[e][c]

C30_CounterEqualsLength ==
    /\ trackedEntitiesCounter = Len(trackedEntities)
    /\ (ret.op = "ClearTrackedEntities") =>
          trackedEntities = <<>> /\ trackedEntitiesCounter = 0
    /\ (ret.op = "Flush" /\ trackedBefore = <<>>) => calls = <<>>

\* ------------------------------------------------------- bus properties
\* The side holds an open connection.
OpenClient(side) == clients[side].conn # 0 /\ ~clients[side].closed

\* C26: whenever one of the two connections reports a close notification,
\* that connection is eventually replaced by a new open connection once the
\* broker is reachable again, and the other connection is not replaced.
C26_AutoReconnect ==
    /\ (<>[]reachable) =>
          \A side \in Sides : (keepers[side] > 0) ~> OpenClient(side)
    /\ [][\A side \in Sides :
             KeepConnection(side) => clients'[Other(side)] = clients[Other(side)]]_vars

\* ---------------------------------------------------- accessor properties
\* The accessor the claim gives a queue config.
AccessorFor(config) ==
    IF config.Delayed THEN "GetRabbitMQDelayedQueue"
    ELSE IF config.Router # "" THEN "GetRabbitMQRouter"
    ELSE "GetRabbitMQQueue"

C28_LockLostReported ==
    (pc = "idle" /\ ret.op \in FlushWithLockOps /\ lockExpired) => ret.err # "nil"

C31_ErrorKeepsDirty ==
    (ret.op = "FlushInCache" /\ ret.err = "error") =>
        \A i \in 1..Len(cacheArgs) : dirtyBefore[cacheArgs[i]] => dirty[cacheArgs[i]]

\* C32: every reconcile message is published before any row image is
\* written to the shared cache: each row key of an MSet has its
\* "<typeName>:<id>" message accepted earlier in the call, no Publish follows
\* an MSet, and after a failed Publish nothing is written.
C32_PublishBeforeMSet ==
    (ret.op = "FlushInCache") =>
        \A i \in 1..Len(calls) :
            calls[i].k = "MSET" =>
                /\ \A j \in 1..Len(calls) :
                      calls[j].k = "PUBLISH" => (j < i /\ calls[j].on = "ok")
                /\ \A n \in 1..Len(calls[i].arg) :
                      \E j \in 1..(i - 1) :
                          calls[j] = Call("PUBLISH", "ok",
                                          createDirtyQueueMember(calls[i].arg[n][1],
                                                                 calls[i].arg[n][2]))

C32_Witness ==
    /\ ret.op = "FlushInCache" /\ ret.err = "nil"
    /\ Cardinality({i \in 1..Len(calls) : calls[i].k = "PUBLISH"}) = 2
    /\ Cardinality({i \in 1..Len(calls) : calls[i].k = "MSET"}) = 2

\* C33: the tracked list holds each entity at most once: Track on a tracked
\* entity, or MarkToDelete / ForceMarkToDelete on one tracked before, adds no
\* second entry.
C33_TrackedOnce ==
    \A i, j \in 1..Len(trackedEntities) :
        trackedEntities[i] = trackedEntities[j] => i = j


\* ---------------------------------------------------------- Flusher properties
\* C34: for a Flusher of any limit and any sequence of RegisterEntity and
\* Flush calls, currentIndex is the number of buffered entities and is never
\* above the limit; without autoFlush a RegisterEntity that would exceed the
\* limit returns an error and buffers nothing more than what fitted; with
\* autoFlush every list handed to flush is the buffer as it was, flushed
\* before the next entity is added; a failed Flush leaves the Flusher as it was.
C34_FlusherWithinLimit ==
    /\ flusher.currentIndex = Len(flusher.entities)
    /\ flusher.currentIndex <= flusher.limit
    /\ (flusherRet.op = "RegisterEntity" /\ ~flusher.autoFlush) =>
          /\ flusherRet.lists = <<>>
          /\ LET fit == flusher.limit - Len(flusherRet.before)
                 n == Len(flusherRet.args)
             IN IF n > fit
                THEN /\ flusherRet.err = "limit"
                     /\ flusher.entities = flusherRet.before \o SubSeq(flusherRet.args, 1, fit)
                ELSE /\ flusherRet.err = "nil"
                     /\ flusher.entities = flusherRet.before \o flusherRet.args
    /\ (flusherRet.op = "RegisterEntity" /\ flusher.autoFlush /\ flusherRet.err = "nil") =>
          LET all == flusherRet.before \o flusherRet.args
              sent == Len(all) - Len(flusher.entities)
          IN /\ flusher.entities = SubSeq(all, sent + 1, Len(all))
             /\ \A i \in 1..Len(flusherRet.lists) : Len(flusherRet.lists[i]) = flusher.limit
    /\ (flusherRet.op = "Flush" /\ flusherRet.err # "nil") =>
          flusher.entities = flusherRet.before

\* ------------------------------------------------- nested handle properties
\* C35: in the nested handle, after any sequence of BeginTransaction, Commit
\* and Rollback, with driver calls that fail or not, transactionCounter is
\* never negative, a transaction is open exactly when transactionCounter is
\* above zero, and the driver's COMMIT is issued only by a Commit that brings
\* the counter back to zero.
C35_CounterMatchesTransaction ==
    /\ nestedDB.transactionCounter >= 0
    /\ (nestedDB.transaction # NoTx) <=> (nestedDB.transactionCounter > 0)
    /\ (\E i \in 1..Len(calls) : calls[i].k = "COMMIT" /\ calls[i].on = "nested") =>
          (ret.op = "Commit" /\ ret.db = "nested" /\ nestedDB.transactionCounter = 0)

\* ---------------------------------------------------------- publish properties
Attempts(events) == {i \in 1..Len(events) : events[i].k = "Publish"}

\* C36: publish sends a message at most twice; a second attempt happens only
\* after a first one that failed with a channel error and after the sender
\* channel was created again, on that new channel; publish returns nil
\* exactly when one of its attempts was accepted, and the error otherwise; an
\* error of the first attempt that is no channel error is returned with no
\* second attempt.
C36_PublishAtMostTwice ==
    LET ev == publishRet.events
        at == Attempts(ev)
    IN /\ Cardinality(at) <= 2
       /\ \A i, j \in at :
            i < j => /\ ev[i].arg = "channel"
                     /\ \E k \in (i + 1)..(j - 1) :
                          /\ ev[k].k = "initChannel" /\ ev[k].arg = "nil"
                          /\ ev[j].channel = ev[k].channel
                     /\ ev[j].channel # ev[i].channel
       /\ (publishRet.err = "nil") <=>
             (publishRet.msg = "-" \/ \E i \in at : ev[i].arg = "nil")
       /\ \A i \in at : ev[i].arg = "other" => (i = Len(ev) /\ publishRet.err = "other")
       /\ \A i \in at : ev[i].arg = "nil" => i = Len(ev)

\* a publish that was accepted at its second attempt, on a new channel
C36_Witness ==
    /\ Cardinality(Attempts(publishRet.events)) = 2
    /\ publishRet.err = "nil"
    /\ channelSender > 1

\* -------------------------------------------------------- MarkDirty properties
\* C37: MarkDirty with a queue code that is no registered dirty queue returns
\* an error and publishes nothing; with a registered code the messages the
\* broker accepted are {EntityName, ID, Updated = true} on the queue
\* dirty_queue_<code>, one for each id in the order of the ids, up to the first
\* id whose publish failed; no id after that one is tried, and its error is
\* returned.
C37_MarkDirtyPublishesInOrder ==
    dirtyRet.op = "MarkDirty" =>
        IF dirtyRet.queueCode \notin DirtyQueues
        THEN /\ dirtyRet.err # "nil"
             /\ dirtyRet.messages = <<>>
             /\ dirtyRet.attempts = 0
        ELSE LET n == Len(dirtyRet.messages) IN
             /\ ~dirtyRet.panic
             /\ n <= Len(dirtyRet.ids)
             /\ \A i \in 1..n :
                  dirtyRet.messages[i] =
                      [queue |-> "dirty_queue_" \o dirtyRet.queueCode,
                       EntityName |-> dirtyRet.entity, ID |-> dirtyRet.ids[i], Updated |-> TRUE]
             /\ IF dirtyRet.err = "nil"
                THEN n = Len(dirtyRet.ids) /\ dirtyRet.tried = n
                ELSE n < Len(dirtyRet.ids) /\ dirtyRet.tried = n + 1

\* two ids marked, the first published and the second refused
C37_Witness ==
    /\ dirtyRet.op = "MarkDirty"
    /\ Len(dirtyRet.ids) = 2
    /\ Len(dirtyRet.messages) = 1
    /\ dirtyRet.err # "nil"
====
